---- MODULE Spec2Model ----
(***************************************************************************)
(* Model of the fuse-plugin of easym (src/fuse-plugin/index.ts): the four  *)
(* capabilities VERIFY_OTP, AUTHENTICATE_USER, RESET_AUTH and CHECK_LOAN,  *)
(* their validate predicates and handlers, the per-room auth-state store   *)
(* (getAuthState / setAuthState) and the expiry check.                     *)
(*                                                                         *)
(* Texts are sequences of one-character strings, so that trimming, case    *)
(* folding, the digit test and keyword search are computed, not assumed.   *)
(* Times are minutes since the epoch.  A missing property of a JavaScript  *)
(* object is the value Undef (NoTime for a time, <<>> for a text).         *)
(***************************************************************************)
EXTENDS Integers, Sequences, FiniteSets, TLC

(* ----------------------------- bounds ---------------------------------- *)

\* Minutes that pass between two turns when the clock advances.
TickMinutes == 16
\* Number of times the clock may advance.
MaxTicks == 1
\* Minute of the epoch at which the process starts (Date.now() is far from 0).
BootTime == 35

\* The rooms of the store, and the rooms in which messages arrive.
Rooms == {"room1", "room2"}

ChatRooms == {"room1"}

\* Ages, in steps of AgeStep minutes, of the records a store can start with.
AgeStep == 5

MaxAgeSteps == 7

\* Number of turns of a room that can be in progress at the same time.
MaxConcurrent == 2

(* ------------------------------ text ----------------------------------- *)

Digits == {"0", "1", "2", "3", "4", "5", "6", "7", "8", "9"}

WhiteSpace == {" "}

UpperCase == <<"A", "B", "C", "D", "E", "F", "G", "H", "I", "J", "K", "L", "M",
               "N", "O", "P", "Q", "R", "S", "T", "U", "V", "W", "X", "Y", "Z">>

LowerCase == <<"a", "b", "c", "d", "e", "f", "g", "h", "i", "j", "k", "l", "m",
               "n", "o", "p", "q", "r", "s", "t", "u", "v", "w", "x", "y", "z">>

Range(s) == {s[i] : i \in DOMAIN s}

\* String.prototype.toLowerCase
ToLowerCase(s) ==
  [i \in DOMAIN s |->
     IF \E k \in DOMAIN UpperCase : UpperCase[k] = s[i]
     THEN LowerCase[CHOOSE k \in DOMAIN UpperCase : UpperCase[k] = s[i]]
     ELSE s[i]]

\* String.prototype.toUpperCase
ToUpperCase(s) ==
  [i \in DOMAIN s |->
     IF \E k \in DOMAIN LowerCase : LowerCase[k] = s[i]
     THEN UpperCase[CHOOSE k \in DOMAIN LowerCase : LowerCase[k] = s[i]]
     ELSE s[i]]

\* String.prototype.trim
Trim(s) ==
  LET keep == {i \in DOMAIN s : s[i] \notin WhiteSpace}
  IN  IF keep = {} THEN <<>>
      ELSE LET first == CHOOSE i \in keep : \A j \in keep : i <= j
               last  == CHOOSE i \in keep : \A j \in keep : j <= i
           IN  SubSeq(s, first, last)

\* /^\d+$/.test(s)
IsNumeric(s) == Len(s) > 0 /\ \A i \in DOMAIN s : s[i] \in Digits

\* The occurrences of k in s: the offsets i with s[i+1 .. i+Len(k)] = k.
Occurrences(s, k) ==
  {i \in 0 .. (Len(s) - Len(k)) : \A j \in DOMAIN k : s[i + j] = k[j]}

\* String.prototype.includes
Includes(s, k) == Occurrences(s, k) # {}

\* \w of a regular expression
IsWordChar(c) ==
  c \in Range(UpperCase) \cup Range(LowerCase) \cup Digits \cup {"_"}

\* \b of a regular expression, between positions i and i+1 of s
IsWordBoundary(s, i) ==
  LET before == i >= 1 /\ i <= Len(s) /\ IsWordChar(s[i])
      after  == i + 1 >= 1 /\ i + 1 <= Len(s) /\ IsWordChar(s[i + 1])
  IN  before # after

\* new RegExp(`\\b${k}\\b`).test(s)
MatchesWord(s, k) ==
  \E i \in Occurrences(s, k) :
     IsWordBoundary(s, i) /\ IsWordBoundary(s, i + Len(k))

\* keywords.some(keyword => text.includes(keyword) || new RegExp(...).test(text))
SomeKeyword(keywords, text) ==
  \E n \in DOMAIN keywords :
     Includes(text, keywords[n]) \/ MatchesWord(text, keywords[n])

(* --------------------------- program tables ---------------------------- *)

\* The cooperative table, in the iteration order of Object.entries.
COOPERATIVE_MAP ==
  << [key |-> <<"T", "E", "S", "T", "I", "N", "G">>, name |-> "TESTING", value |-> "testing"],
     [key |-> <<"N", "S", "C", "D", "C", "K", "W", "A", "C", "O", "O", "P">>, name |-> "NSCDCKWACOOP", value |-> "nscdckwacoop"],
     [key |-> <<"N", "S", "C", "D", "C", "J", "O", "S">>, name |-> "NSCDCJOS", value |-> "nscdcjos"],
     [key |-> <<"C", "T", "L", "S">>, name |-> "CTLS", value |-> "ctls"],
     [key |-> <<"F", "U", "S", "I", "O", "N">>, name |-> "FUSION", value |-> "fusion"],
     [key |-> <<"L", "I", "F", "E", "L", "I", "N", "E", "M", "C", "S">>, name |-> "LIFELINEMCS", value |-> "lifelinemcs"],
     [key |-> <<"T", "F", "C">>, name |-> "TFC", value |-> "tfc"],
     [key |-> <<"I", "M", "M", "I", "G", "R", "A", "T", "I", "O", "N">>, name |-> "IMMIGRATION", value |-> "immigrationmcs"],
     [key |-> <<"I", "M", "M", "I", "G", "R", "A", "T", "I", "O", "N", "M", "C", "S">>, name |-> "IMMIGRATIONMCS", value |-> "immigrationmcs"],
     [key |-> <<"O", "C", "T", "I", "C", "S">>, name |-> "OCTICS", value |-> "octics"],
     [key |-> <<"M", "I", "L", "L", "Y">>, name |-> "MILLY", value |-> "milly"],
     [key |-> <<"A", "V", "I", "A", "T", "I", "O", "N", "A", "B", "J">>, name |-> "AVIATIONABJ", value |-> "aviationabj"],
     [key |-> <<"F", "C", "D", "A", "M", "C", "S">>, name |-> "FCDAMCS", value |-> "fcdamcs"],
     [key |-> <<"I", "N", "E", "C", "B", "A", "U", "C", "H", "I">>, name |-> "INECBAUCHI", value |-> "inecbauchi"],
     [key |-> <<"I", "N", "E", "C", "K", "W", "A", "R", "A">>, name |-> "INECKWARA", value |-> "ineckwara"],
     [key |-> <<"G", "P", "M", "S">>, name |-> "GPMS", value |-> "gpms"],
     [key |-> <<"I", "N", "E", "C", "H", "Q", "M", "C", "S">>, name |-> "INECHQMCS", value |-> "inechqmcs"],
     [key |-> <<"N", "N", "M", "C", "S", "L">>, name |-> "NNMCSL", value |-> "nnmcsl"],
     [key |-> <<"I", "N", "E", "C", "S", "M", "C", "S">>, name |-> "INECSMCS", value |-> "inecsmcs"],
     [key |-> <<"M", "O", "D", "A", "C", "S">>, name |-> "MODACS", value |-> "modacs"],
     [key |-> <<"N", "C", "C", "M", "C", "S">>, name |-> "NCCMCS", value |-> "nccmcs"],
     [key |-> <<"N", "I", "C", "N", "M", "C", "S">>, name |-> "NICNMCS", value |-> "nicnmcs"],
     [key |-> <<"O", "A", "G", "F">>, name |-> "OAGF", value |-> "oagf"],
     [key |-> <<"S", "A", "M", "C", "O", "S">>, name |-> "SAMCOS", value |-> "samcos"],
     [key |-> <<"V", "A", "L", "G", "E", "E", "C", "S">>, name |-> "VALGEECS", value |-> "valgeecs"] >>

\* authKeywords of AUTHENTICATE_USER.validate
authKeywords ==
  << <<"l", "o", "g", "i", "n">>,
     <<"a", "u", "t", "h", "e", "n", "t", "i", "c", "a", "t", "e">>,
     <<"v", "e", "r", "i", "f", "y">>,
     <<"i", "d", "e", "n", "t", "i", "t", "y">>,
     <<"s", "i", "g", "n", " ", "i", "n">>,
     <<"c", "r", "e", "d", "e", "n", "t", "i", "a", "l", "s">>,
     <<"a", "c", "c", "o", "u", "n", "t", " ", "a", "c", "c", "e", "s", "s">> >>

\* loanKeywords of AUTHENTICATE_USER.validate
authLoanKeywords ==
  << <<"l", "o", "a", "n">>,
     <<"b", "o", "r", "r", "o", "w">>,
     <<"c", "r", "e", "d", "i", "t">>,
     <<"p", "a", "y", "m", "e", "n", "t">>,
     <<"b", "a", "l", "a", "n", "c", "e">> >>

\* resetKeywords of RESET_AUTH.validate
resetKeywords ==
  << <<"r", "e", "s", "e", "t">>,
     <<"r", "e", "s", "t", "a", "r", "t">>,
     <<"s", "t", "a", "r", "t", " ", "o", "v", "e", "r">>,
     <<"c", "l", "e", "a", "r">>,
     <<"b", "e", "g", "i", "n", " ", "a", "g", "a", "i", "n">>,
     <<"s", "t", "a", "r", "t", " ", "f", "r", "e", "s", "h">>,
     <<"s", "t", "a", "r", "t", " ", "n", "e", "w">>,
     <<"n", "e", "w", " ", "s", "e", "s", "s", "i", "o", "n">>,
     <<"l", "o", "g", " ", "o", "u", "t">>,
     <<"s", "i", "g", "n", " ", "o", "u", "t">>,
     <<"f", "o", "r", "g", "e", "t", " ", "m", "e">>,
     <<"c", "l", "e", "a", "n", " ", "s", "l", "a", "t", "e">>,
     <<"w", "i", "p", "e">>,
     <<"f", "r", "o", "m", " ", "s", "c", "r", "a", "t", "c", "h">>,
     <<"r", "e", "-", "d", "o">>,
     <<"t", "r", "y", " ", "a", "g", "a", "i", "n", " ", "f", "r", "o", "m", " ", "b", "e", "g", "i", "n", "n", "i", "n", "g">>,
     <<"r", "e", "b", "o", "o", "t">>,
     <<"f", "r", "e", "s", "h", " ", "s", "t", "a", "r", "t">> >>

\* loanKeywords of CHECK_LOAN.validate
loanKeywords ==
  << <<"l", "o", "a", "n">>,
     <<"b", "o", "r", "r", "o", "w">>,
     <<"c", "r", "e", "d", "i", "t">>,
     <<"d", "e", "b", "t">>,
     <<"o", "w", "e">>,
     <<"p", "a", "y", "m", "e", "n", "t">>,
     <<"b", "a", "l", "a", "n", "c", "e">>,
     <<"d", "u", "e">>,
     <<"r", "e", "p", "a", "y", "m", "e", "n", "t">>,
     <<"i", "n", "t", "e", "r", "e", "s", "t">>,
     <<"p", "r", "i", "n", "c", "i", "p", "a", "l">>,
     <<"c", "h", "e", "c", "k", " ", "m", "y">>,
     <<"v", "i", "e", "w", " ", "m", "y">>,
     <<"s", "h", "o", "w", " ", "m", "y">>,
     <<"g", "e", "t", " ", "m", "y">>,
     <<"t", "e", "l", "l", " ", "m", "e", " ", "a", "b", "o", "u", "t", " ", "m", "y">> >>

\* Session timeouts of checkAndResetExpiredAuthState, in minutes.
DefaultTimeout == 30

OtpTimeout == 15

CredentialsTimeout == 20

(* ------------------------------ sessions ------------------------------- *)

\* enum AuthState
AuthState ==
  {"NEED_COOPERATIVE", "NEED_CREDENTIALS", "NEED_OTP", "AUTHENTICATED", "FAILED"}

\* A property that the object does not have (undefined).
Undef == "undefined"

\* The value null.
Null == "null"

\* A time property that the object does not have.
NoTime == -1

\* A credentials property that the object does not have.
NoCredentials == [present |-> FALSE, email |-> <<>>, employee_number |-> Null]

\* A responseData property that the object does not have.
NoResponseData == [otp |-> <<>>, token |-> Undef]

\* The object {} seen as a session record: every property is missing.
EmptyObject ==
  [status |-> Undef, roomId |-> Undef, userId |-> Undef,
   cooperative |-> Undef, originalCoopName |-> Undef,
   credentials |-> NoCredentials, partialCredentials |-> NoCredentials,
   otp |-> <<>>, token |-> Undef, responseData |-> NoResponseData,
   postAuthAction |-> Undef, otpGeneratedAt |-> NoTime, verifiedAt |-> NoTime,
   resetAt |-> NoTime, previousState |-> Undef, timedOut |-> FALSE,
   lastError |-> Undef, error |-> Undef, updatedAt |-> NoTime]

\* The properties of a session record.
Fields == DOMAIN EmptyObject

\* Truthiness of a string-valued property.
Truthy(v) == v \notin {Undef, Null, ""}

(* --------------------------- the state store --------------------------- *)

\* getAuthState whose catch block returns the bare default record, without
\* the error annotation.
GetAuthState_Unannotated(st, roomId, readOk) ==
  IF readOk /\ Len(st[roomId]) > 0
  THEN st[roomId][1]
  ELSE [EmptyObject EXCEPT !.status = "NEED_COOPERATIVE", !.roomId = roomId]

\* getAuthState: st is the table of stored records (at most the latest one
\* per room), readOk tells whether databaseAdapter.getMemories succeeds.
GetAuthState(st, roomId, readOk) ==
  IF ~readOk
  THEN [EmptyObject EXCEPT !.status = "NEED_COOPERATIVE", !.roomId = roomId,
                           !.error = "getMemories failed"]
  ELSE IF Len(st[roomId]) > 0
       THEN st[roomId][1]
       ELSE [EmptyObject EXCEPT !.status = "NEED_COOPERATIVE", !.roomId = roomId]

\* updatedStateData that does not carry the pending intent over.
UpdatedStateData_DropsIntent(roomId, stateData, t) ==
  [stateData EXCEPT !.roomId = roomId, !.updatedAt = t, !.postAuthAction = Undef]

\* updatedStateData that keeps the updatedAt of the state data.
UpdatedStateData_KeepsStamp(roomId, stateData, t) ==
  [stateData EXCEPT !.roomId = roomId]

\* updatedStateData of setAuthState: the record that is persisted.
UpdatedStateData(roomId, stateData, t) ==
  [stateData EXCEPT !.roomId = roomId, !.updatedAt = t]

\* setAuthState that lays the state data over the stored record, so that the
\* properties the state data lack keep their stored values.
SetAuthState_Merges(st, roomId, stateData, t, writeOk) ==
  LET stored == IF st[roomId] = <<>> THEN EmptyObject ELSE st[roomId][1]
      merged == [f \in Fields |->
                   IF stateData[f] = EmptyObject[f] THEN stored[f] ELSE stateData[f]]
  IN  IF writeOk
      THEN [st EXCEPT ![roomId] = <<[merged EXCEPT !.roomId = roomId, !.updatedAt = t]>>]
      ELSE st

\* setAuthState: the table after the write; a failed createMemory leaves it.
SetAuthState(st, roomId, stateData, t, writeOk) ==
  IF writeOk
  THEN [st EXCEPT ![roomId] = <<UpdatedStateData(roomId, stateData, t)>>]
  ELSE st

(* ------------------------- cooperative resolver ------------------------ *)

\* input.toUpperCase().replace(/[^A-Z0-9]/g, '')
Normalize(input) ==
  SelectSeq(ToUpperCase(input), LAMBDA c : c \in Range(UpperCase) \cup Digits)

\* editDistance: the Levenshtein distance, by the same table, filled row by
\* row; column i of a row is at position i + 1 of its sequence.
EditDistance(a, b) ==
  LET Min(x, y) == IF x <= y THEN x ELSE y
      RECURSIVE Fill(_, _, _)
      Fill(prev, j, row) ==
        LET i == Len(row)
        IN  IF i > Len(a) THEN row
            ELSE Fill(prev, j,
                      Append(row,
                             Min(Min(row[i] + 1, prev[i + 1] + 1),
                                 prev[i] + (IF a[i] = b[j] THEN 0 ELSE 1))))
      RECURSIVE Row(_)
      Row(j) == IF j = 0 THEN [i \in 1 .. Len(a) + 1 |-> i - 1]
                ELSE Fill(Row(j - 1), j, <<j>>)
  IN  IF Len(a) = 0 THEN Len(b)
      ELSE IF Len(b) = 0 THEN Len(a)
      ELSE Row(Len(b))[Len(a) + 1]

\* stringSimilarity, as the fraction <<numerator, denominator>>; 1.0 is <<1, 1>>
StringSimilarity(a, b) ==
  LET longer == IF Len(a) > Len(b) THEN a ELSE b
      shorter == IF Len(a) <= Len(b) THEN a ELSE b
  IN  IF Len(longer) = 0 THEN <<1, 1>>
      ELSE <<Len(longer) - EditDistance(longer, shorter), Len(longer)>>

\* x > y for fractions with positive denominators
Greater(x, y) == x[1] * y[2] > y[1] * x[2]

\* The fuzzy match of validateCooperative: the first entry, in table order,
\* with the highest similarity above 0.6; 0 when there is none.
BestMatch(normalizedInput) ==
  LET score == [n \in DOMAIN COOPERATIVE_MAP |->
                  StringSimilarity(normalizedInput, COOPERATIVE_MAP[n].key)]
      good == {n \in DOMAIN COOPERATIVE_MAP : Greater(score[n], <<6, 10>>)}
  IN  IF good = {} THEN 0
      ELSE CHOOSE n \in good :
             \A k \in good : /\ ~Greater(score[k], score[n])
                             /\ k < n => Greater(score[n], score[k])

\* validateCooperative that strips the input without uppercasing it first.
ValidateCooperative_CaseSensitive(input) ==
  LET normalizedInput ==
        SelectSeq(input, LAMBDA c : c \in Range(UpperCase) \cup Digits)
      exact == {n \in DOMAIN COOPERATIVE_MAP :
                  COOPERATIVE_MAP[n].key = normalizedInput}
      partial == {n \in DOMAIN COOPERATIVE_MAP :
                    \/ Includes(normalizedInput, COOPERATIVE_MAP[n].key)
                    \/ Includes(COOPERATIVE_MAP[n].key, normalizedInput)}
  IN  IF input = <<>> THEN Null
      ELSE IF exact # {} THEN COOPERATIVE_MAP[CHOOSE n \in exact : TRUE].value
      ELSE IF partial # {}
      THEN COOPERATIVE_MAP[CHOOSE n \in partial : \A k \in partial : n <= k].value
      ELSE IF BestMatch(normalizedInput) # 0
      THEN COOPERATIVE_MAP[BestMatch(normalizedInput)].value
      ELSE Null

\* validateCooperative
ValidateCooperative(input) ==
  LET normalizedInput == Normalize(input)
      exact == {n \in DOMAIN COOPERATIVE_MAP :
                  COOPERATIVE_MAP[n].key = normalizedInput}
      partial == {n \in DOMAIN COOPERATIVE_MAP :
                    \/ Includes(normalizedInput, COOPERATIVE_MAP[n].key)
                    \/ Includes(COOPERATIVE_MAP[n].key, normalizedInput)}
  IN  IF input = <<>> THEN Null
      ELSE IF exact # {} THEN COOPERATIVE_MAP[CHOOSE n \in exact : TRUE].value
      ELSE IF partial # {}
      THEN COOPERATIVE_MAP[CHOOSE n \in partial : \A k \in partial : n <= k].value
      ELSE IF BestMatch(normalizedInput) # 0
      THEN COOPERATIVE_MAP[BestMatch(normalizedInput)].value
      ELSE Null

(* --------------------------- diagnostic log ---------------------------- *)

\* The text '[REDACTED]'.
Redacted == <<"[", "R", "E", "D", "A", "C", "T", "E", "D", "]">>

\* '*'.repeat(n)
Stars(n) == [i \in 1 .. n |-> "*"]

\* maskEmail
MaskEmail(email) ==
  LET ats == {i \in DOMAIN email : email[i] = "@"}
  IN  IF email = <<>> THEN <<>>
      ELSE IF Cardinality(ats) # 1
      THEN IF Len(email) > 4
           THEN SubSeq(email, 1, 2) \o Stars(Len(email) - 2)
           ELSE email
      ELSE LET at == CHOOSE i \in ats : TRUE
               name == SubSeq(email, 1, at - 1)
               shown == IF Len(name) - 2 < 6 THEN Len(name) - 2 ELSE 6
           IN  IF Len(name) <= 2 THEN email
               ELSE SubSeq(name, 1, 2) \o Stars(shown)
                      \o SubSeq(email, at, Len(email))

\* An entry of the diagnostic log: the function that wrote it and the
\* object it printed after its message.
LogEntry(by, data) == [by |-> by, data |-> data]

\* What getAuthState writes to the log: the stored content as it is.
GetAuthStateLog(st, roomId, readOk) ==
  IF readOk /\ Len(st[roomId]) > 0
  THEN <<LogEntry("getAuthState", st[roomId][1])>>
  ELSE <<>>

\* The object setAuthState prints: the state data with token, otp and
\* credentials overridden.
LoggedStateData(stateData) ==
  [stateData EXCEPT
     !.token = IF Truthy(stateData.token) THEN "[REDACTED]" ELSE Undef,
     !.otp = IF stateData.otp # <<>> THEN Redacted ELSE <<>>,
     !.credentials =
        IF stateData.credentials.present
        THEN [present |-> TRUE,
              email |-> MaskEmail(stateData.credentials.email),
              employee_number |-> stateData.credentials.employee_number]
        ELSE NoCredentials]

\* What setAuthState writes to the log.
SetAuthStateLog(stateData) ==
  <<LogEntry("setAuthState", LoggedStateData(stateData))>>

(* -------------------------- claim predicates --------------------------- *)

\* the in-flow test used by the validate functions
InAuthFlow(authState) ==
  authState.status # "AUTHENTICATED" /\ authState.status # Undef

\* authenticateAction.validate without its rejection of numeric input.
AuthenticateValidate_AcceptsDigits(messageText, authState) ==
  LET text == Trim(messageText)
      containsAuthKeyword == SomeKeyword(authKeywords, text)
      containsLoanKeyword == SomeKeyword(authLoanKeywords, text)
  IN  IF InAuthFlow(authState)
      THEN ~(authState.status = "NEED_OTP" /\ IsNumeric(Trim(messageText)))
      ELSE IF containsLoanKeyword /\ containsAuthKeyword THEN FALSE
           ELSE containsAuthKeyword

\* authenticateAction.validate that looks for its keywords whatever the
\* status of the session.
AuthenticateValidate_NeedsKeyword(messageText, authState) ==
  LET text == Trim(messageText)
      containsAuthKeyword == SomeKeyword(authKeywords, text)
      containsLoanKeyword == SomeKeyword(authLoanKeywords, text)
  IN  IF IsNumeric(text) THEN FALSE
      ELSE IF containsLoanKeyword /\ containsAuthKeyword THEN FALSE
           ELSE containsAuthKeyword

\* authenticateAction.validate; authState is what its getAuthState returns
AuthenticateValidate(messageText, authState) ==
  LET text == Trim(messageText)
      containsAuthKeyword == SomeKeyword(authKeywords, text)
      containsLoanKeyword == SomeKeyword(authLoanKeywords, text)
  IN  IF IsNumeric(text) THEN FALSE
      ELSE IF InAuthFlow(authState)
           THEN ~(authState.status = "NEED_OTP" /\ IsNumeric(Trim(messageText)))
           ELSE IF containsLoanKeyword /\ containsAuthKeyword THEN FALSE
                ELSE containsAuthKeyword

\* resetAction.validate
ResetValidate(messageText) ==
  SomeKeyword(resetKeywords, ToLowerCase(messageText))

\* loanInfoAction.validate without the test for a session in the flow.
LoanInfoValidate_AnyStatus(messageText, otpCheckState, flowCheckState) ==
  LET text == ToLowerCase(messageText)
  IN  IF IsNumeric(text) THEN FALSE
      ELSE IF IsNumeric(Trim(text)) /\ otpCheckState.status = "NEED_OTP" THEN FALSE
           ELSE SomeKeyword(loanKeywords, text)

\* loanInfoAction.validate; otpCheckState and flowCheckState are what its two
\* getAuthState calls return
LoanInfoValidate(messageText, otpCheckState, flowCheckState) ==
  LET text == ToLowerCase(messageText)
  IN  IF IsNumeric(text) THEN FALSE
      ELSE IF IsNumeric(Trim(text)) /\ otpCheckState.status = "NEED_OTP" THEN FALSE
           ELSE IF InAuthFlow(flowCheckState) THEN FALSE
                ELSE SomeKeyword(loanKeywords, text)

\* verifyOTPAction.validate that takes a code in every status but
\* AUTHENTICATED.
VerifyOTPValidate_UnlessAuthenticated(messageText, authState) ==
  IsNumeric(Trim(messageText)) /\ authState.status # "AUTHENTICATED"

\* verifyOTPAction.validate that does not look at the status.
VerifyOTPValidate_AnyStatus(messageText, authState) ==
  IsNumeric(Trim(messageText))

\* verifyOTPAction.validate
VerifyOTPValidate(messageText, authState) ==
  LET text == Trim(messageText)
  IN  IF ~IsNumeric(text) THEN FALSE
      ELSE authState.status = "NEED_OTP"

(* ----------------------------- collaborators --------------------------- *)

\* The message texts a user sends (message.content.text).
Messages ==
  { <<"0", "0", "7">>,
    <<"7">>,
    <<" ", "7", " ">>,
    <<"r", "e", "s", "e", "t">>,
    <<"m", "y", " ", "l", "o", "a", "n">>,
    <<"l", "o", "g", "i", "n">>,
    <<"l", "o", "g", "i", "n", " ", "l", "o", "a", "n">>,
    <<"a", "t", " ", "F", "U", "S", "I", "O", "N">>,
    <<"h", "e", "l", "l", "o">>,
    <<"r", "e", "s", "e", "t", " ", "l", "o", "a", "n">>,
    <<"L", "o", "g", "i", "n">>,
    <<"l", "o", "g", "i", "n", " ", "d", "e", "b", "t">>,
    <<"t", "f", "c", " ", "f", "u", "s", "i", "o", "n">> }

\* The values the status of a record can have.
Statuses == AuthState \cup {Undef}

\* A record of which only the status is known.
WithStatus(s) == [EmptyObject EXCEPT !.status = s]

\* The answers of the validate functions, which depend on the message text
\* and on the status of the record they read, tabulated once.
VerifyOTPClaims ==
  [m \in Messages, s \in Statuses |-> VerifyOTPValidate(m, WithStatus(s))]

AuthenticateClaims ==
  [m \in Messages, s \in Statuses |-> AuthenticateValidate(m, WithStatus(s))]

ResetClaims == [m \in Messages |-> ResetValidate(m)]

\* /^\d+$/.test(message.content.text.trim()), tabulated once.
NumericText == [m \in Messages |-> IsNumeric(Trim(m))]

\* isLoanRelated of CHECK_LOAN.validate, tabulated once.
IsLoanRelated ==
  [m \in Messages |-> SomeKeyword(loanKeywords, ToLowerCase(m))]

LoanInfoClaims ==
  [m \in Messages, s1 \in Statuses, s2 \in Statuses |->
     LoanInfoValidate(m, WithStatus(s1), WithStatus(s2))]

\* What a generateText call can do: return text, return "", or throw.
LlmOutcomes == {"text", "empty", "throw"}

\* What the loan API can answer: a status, or no answer at all (fetch throws);
\* a 2xx answer carries loan data, no loan data ({} or []) or a broken body.
LoanApiOutcomes == {"throw", "401", "403", "500", "data", "empty", "badjson"}

\* The codes the tenant API can issue.
Otps == {<<"0", "0", "7">>, <<"7">>}

\* A value that response.json() can yield, or undefined: its type and its
\* size (the number of keys of an object, the length of an array or a string,
\* the value of a number, 1 for true and 0 for false).
Json(type, size) == [type |-> type, size |-> size]

\* The largest size of the loan data that are tried.
MaxLoans == 2

\* The loan data formatLoanResponse is called with.
LoanDataValues ==
  {Json("null", 0), Json("undefined", 0)}
  \cup {Json(t, n) : t \in {"object", "array", "number", "string"}, n \in 0 .. MaxLoans}
  \cup {Json("boolean", n) : n \in 0 .. 1}

\* validTypes of determineLoanInfoType
InfoTypes == {"STATUS", "AMOUNT", "PAYMENT", "ELIGIBILITY", "HISTORY", "DETAILS"}

\* !v
IsFalsy(v) ==
  \/ v.type \in {"null", "undefined"}
  \/ v.type \in {"boolean", "number", "string"} /\ v.size = 0

\* The test for missing loan data that only looks for a falsy value.
IsEmptyLoanData_OnlyFalsy(loanData) == IsFalsy(loanData)

\* The test of formatLoanResponse for empty or missing loan data; typeof is
\* 'object' for objects, arrays and null, and Object.keys of an array are
\* its indices.
IsEmptyLoanData(loanData) ==
  \/ IsFalsy(loanData)
  \/ loanData.type \in {"object", "array", "null"} /\ loanData.size = 0
  \/ loanData.type = "array" /\ loanData.size = 0

\* formatLoanResponse: the kind of text it returns and the functions it
\* calls on the way, in order, given the outcome llm of a generateText call.
FormatLoanResponseRun(loanData, infoType, llm) ==
  IF IsEmptyLoanData(loanData)
  THEN [text |-> "noActiveLoan", calls |-> <<>>]
  ELSE IF llm = "throw"
       THEN [text |-> "fallback",
             calls |-> <<"sanitizeLoanData", "generateText",
                         "createFallbackLoanResponse">>]
       ELSE [text |-> IF llm = "empty" THEN "" ELSE "generated",
             calls |-> <<"sanitizeLoanData", "generateText">>]

\* formatLoanResponse: the kind of text it returns for the loan data of an
\* API answer ({} or [] when the answer is empty) and the outcome of its
\* generateText call.
FormatLoanResponse(loanData, llm) ==
  FormatLoanResponseRun(IF loanData = "empty" THEN Json("object", 0)
                        ELSE Json("object", MaxLoans), "DETAILS", llm).text

(* ------------------------------- events -------------------------------- *)

\* callback({text})
Reply(text) == [e |-> "reply", text |-> text, body |-> NoCredentials]

\* a setAuthState call and whether createMemory succeeded
Write(ok) ==
  [e |-> "write", text |-> IF ok THEN "ok" ELSE "failed", body |-> NoCredentials]

\* a call of an external collaborator
Call(what) == [e |-> "call", text |-> what, body |-> NoCredentials]

\* the call of the tenant authentication API with its requestBody
AuthApiCall(credentials) == [e |-> "call", text |-> "authApi", body |-> credentials]

\* what JSON.parse made of the text generated for the extraction
Extracted(x) ==
  [e |-> "extracted", text |-> x.kind,
   body |-> [present |-> TRUE, email |-> x.email,
             employee_number |-> x.employee_number]]

\* what the tenant authentication API answered to that call
AuthApiAnswer(api) == [e |-> "answer", text |-> api, body |-> NoCredentials]

\* the handler's promise rejects
Threw == [e |-> "throw", text |-> "uncaught", body |-> NoCredentials]

\* the handler returns false without replying
ReturnedFalse == [e |-> "return", text |-> "false", body |-> NoCredentials]

(* ------------------------------- state --------------------------------- *)

VARIABLES
  store,      \* room -> the stored auth-state records (the latest one, or none)
  now,        \* Date.now(), in minutes
  pc,         \* "idle", "route" once the validate functions have answered,
              \* "done" once the turn is over
  room,       \* the room of the current (or last) message
  msg,        \* the text of the current (or last) message
  claimed,    \* the capabilities whose validate returned true for it
  otpRead,    \* the status VERIFY_OTP.validate read for it, "unread" if none
  handled,    \* the capability whose handler ran for it, or "none"
  readState,  \* what that handler's getAuthState returned
  events,     \* what that handler did, in order
  call,       \* the last direct call of a store function, with its result
  inflight    \* the handlers that run at the same time, each in its slot

vars ==
  <<store, now, pc, room, msg, claimed, otpRead, handled, readState, events, call,
    inflight>>

turnVars == <<pc, room, msg, claimed, otpRead, handled, readState, events, inflight>>

\* A slot in which no handler runs.  A running handler has the message it
\* was started for, what its getAuthState returned (read), what the store
\* held when its setAuthState replaced it (overwrote), and what it did (ev).
IdleSlot ==
  [pc |-> "idle", msg |-> <<>>, handler |-> "none", read |-> EmptyObject,
   overwrote |-> <<>>, ev |-> <<>>]

NoTurns == [t \in 1 .. MaxConcurrent |-> IdleSlot]

NoCall ==
  [op |-> "none", room |-> "room1", readOk |-> TRUE, writeOk |-> TRUE,
   arg |-> EmptyObject, ret |-> EmptyObject, expired |-> FALSE,
   before |-> <<>>, at |-> 0, afterPut |-> FALSE, log |-> <<>>,
   input |-> <<>>, output |-> Undef]

Init ==
  /\ store = [r \in Rooms |-> <<>>]
  /\ now = BootTime
  /\ pc = "idle"
  /\ room = "room1"
  /\ msg = <<>>
  /\ claimed = {}
  /\ otpRead = "unread"
  /\ handled = "none"
  /\ readState = EmptyObject
  /\ events = <<>>
  /\ call = NoCall
  /\ inflight = NoTurns

\* Time passes between two turns.
Tick ==
  /\ pc = "idle"
  /\ now + TickMinutes <= BootTime + MaxTicks * TickMinutes
  /\ now' = now + TickMinutes
  /\ UNCHANGED <<store, turnVars, call>>

\* The turn is over: the runtime is ready for the next message.
EndTurn ==
  /\ pc = "done"
  /\ pc' = "idle"
  /\ room' = "room1"
  /\ msg' = <<>>
  /\ claimed' = {}
  /\ otpRead' = "unread"
  /\ handled' = "none"
  /\ readState' = EmptyObject
  /\ events' = <<>>
  /\ UNCHANGED <<store, now, call, inflight>>

\* A message arrives and the runtime asks every action of fusePlugin.actions
\* whether it claims it; each validate reads the store on its own.
Receive(r, m) ==
  /\ pc = "idle"
  /\ \E okOtp, okAuth, okLoan1, okLoan2 \in BOOLEAN :
       /\ otpRead' = IF NumericText[m]
                     THEN GetAuthState(store, r, okOtp).status
                     ELSE "unread"
       /\ claimed' =
           {a \in {"VERIFY_OTP"} :
              VerifyOTPClaims[m, GetAuthState(store, r, okOtp).status]}
           \cup {a \in {"AUTHENTICATE_USER"} :
                   AuthenticateClaims[m, GetAuthState(store, r, okAuth).status]}
           \cup {a \in {"RESET_AUTH"} : ResetClaims[m]}
           \cup {a \in {"CHECK_LOAN"} :
                   LoanInfoClaims[m, GetAuthState(store, r, okLoan1).status,
                                     GetAuthState(store, r, okLoan2).status]}
  /\ pc' = "route"
  /\ room' = r
  /\ msg' = m
  /\ handled' = "none"
  /\ readState' = EmptyObject
  /\ events' = <<>>
  /\ UNCHANGED <<store, now, call, inflight>>

\* No capability claims the message: the plugin does nothing with it.
Unclaimed ==
  /\ pc = "route"
  /\ claimed = {}
  /\ pc' = "done"
  /\ UNCHANGED <<store, now, room, msg, claimed, otpRead, handled, readState,
               events, call, inflight>>

\* The end of a handler: h ran, read authState and produced the result res.
Finish(h, authState, res) ==
  /\ pc' = "done"
  /\ handled' = h
  /\ readState' = authState
  /\ store' = res.st
  /\ events' = res.ev
  /\ UNCHANGED <<now, room, msg, claimed, otpRead, call, inflight>>

\* The reset that lays NEED_COOPERATIVE over the stored session and keeps
\* its other properties.
ResetHandlerResult_KeepsSession(st, r, t, writeOk, llm) ==
  LET stored == IF st[r] = <<>> THEN EmptyObject ELSE st[r][1]
      fresh == [stored EXCEPT !.status = "NEED_COOPERATIVE", !.resetAt = t]
      st2   == SetAuthState(st, r, fresh, t, writeOk)
  IN  IF ~writeOk THEN [st |-> st2, ev |-> <<Write(FALSE), Threw>>]
      ELSE [st |-> st2,
            ev |-> <<Write(TRUE), Call("generateText")>>
                   \o (IF llm = "throw" THEN <<Threw>> ELSE <<Reply("sessionReset")>>)]

\* resetAuthState followed by the rest of resetAction.handler
ResetHandlerResult(st, r, t, writeOk, llm) ==
  LET fresh == [EmptyObject EXCEPT !.status = "NEED_COOPERATIVE", !.resetAt = t]
      st2   == SetAuthState(st, r, fresh, t, writeOk)
  IN  IF ~writeOk THEN [st |-> st2, ev |-> <<Write(FALSE), Threw>>]
      ELSE IF llm = "throw"
           THEN [st |-> st2, ev |-> <<Write(TRUE), Call("generateText"), Threw>>]
           ELSE [st |-> st2,
                 ev |-> <<Write(TRUE), Call("generateText"), Reply("sessionReset")>>]

\* resetAction.handler
ResetHandler ==
  /\ pc = "route"
  /\ "RESET_AUTH" \in claimed
  /\ \E writeOk \in BOOLEAN, llm \in LlmOutcomes :
       Finish("RESET_AUTH", EmptyObject,
              ResetHandlerResult(store, room, now, writeOk, llm))

\* The loan lookup that follows a successful OTP verification
\* (verifyOTPAction.handler, the CHECK_LOAN branch).
PostOtpLoanCheck(authState, typeLlm, api, formatLlm) ==
  IF typeLlm = "throw" \/ ~authState.credentials.present
  THEN <<Reply("authenticatedCheckingLoan"), Call("generateText"),
         Reply("errorVerifyingCode")>>
  ELSE IF api \in {"data", "empty"}
       THEN <<Reply("authenticatedCheckingLoan"), Call("generateText"),
              Call("loanApi"), Reply(FormatLoanResponse(api, formatLlm))>>
       ELSE <<Reply("authenticatedCheckingLoan"), Call("generateText"),
              Call("loanApi"), Reply("authenticatedButLoanFailed")>>

\* The comparison of the entered code with the stored one by numeric value.
OtpMatches_ByValue(enteredOTP, otp) ==
  LET DigitValue(c) == CHOOSE n \in 0 .. 9 : ToString(n) = c
      RECURSIVE Val(_, _)
      Val(s, k) == IF k = 0 THEN 0 ELSE 10 * Val(s, k - 1) + DigitValue(s[k])
  IN  /\ IsNumeric(enteredOTP) /\ IsNumeric(otp)
      /\ Val(enteredOTP, Len(enteredOTP)) = Val(otp, Len(otp))

\* enteredOTP === authState.otp
OtpMatches(enteredOTP, otp) == enteredOTP = otp

\* verifyOTPAction.handler that marks the session FAILED when the entered
\* code does not match.
VerifyOTPHandlerResult_FailsOnMismatch(st, r, m, authState, t, writeOk, typeLlm, api, formatLlm) ==
  LET enteredOTP == Trim(m)
      verified == [authState EXCEPT !.status = "AUTHENTICATED", !.verifiedAt = t]
      failed == [authState EXCEPT !.status = "FAILED"]
  IN  IF authState.status # "NEED_OTP"
      THEN [st |-> st, ev |-> <<ReturnedFalse>>]
      ELSE IF OtpMatches(enteredOTP, authState.otp)
           THEN IF ~writeOk
                THEN [st |-> st, ev |-> <<Write(FALSE), Reply("errorVerifyingCode")>>]
                ELSE IF authState.postAuthAction = "CHECK_LOAN"
                     THEN [st |-> SetAuthState(st, r, verified, t, TRUE),
                           ev |-> <<Write(TRUE)>>
                                   \o PostOtpLoanCheck(authState, typeLlm, api, formatLlm)]
                     ELSE [st |-> SetAuthState(st, r, verified, t, TRUE),
                           ev |-> <<Write(TRUE), Reply("authenticationSuccessful")>>]
           ELSE [st |-> SetAuthState(st, r, failed, t, TRUE),
                 ev |-> <<Reply("codeMismatch")>>]

\* verifyOTPAction.handler, after its getAuthState
VerifyOTPHandlerResult(st, r, m, authState, t, writeOk, typeLlm, api, formatLlm) ==
  LET enteredOTP == Trim(m)
      verified == [authState EXCEPT !.status = "AUTHENTICATED", !.verifiedAt = t]
  IN  IF authState.status # "NEED_OTP"
      THEN [st |-> st, ev |-> <<ReturnedFalse>>]
      ELSE IF OtpMatches(enteredOTP, authState.otp)
           THEN IF ~writeOk
                THEN [st |-> st, ev |-> <<Write(FALSE), Reply("errorVerifyingCode")>>]
                ELSE IF authState.postAuthAction = "CHECK_LOAN"
                     THEN [st |-> SetAuthState(st, r, verified, t, TRUE),
                           ev |-> <<Write(TRUE)>>
                                   \o PostOtpLoanCheck(authState, typeLlm, api, formatLlm)]
                     ELSE [st |-> SetAuthState(st, r, verified, t, TRUE),
                           ev |-> <<Write(TRUE), Reply("authenticationSuccessful")>>]
           ELSE [st |-> st, ev |-> <<Reply("codeMismatch")>>]

\* verifyOTPAction.handler
VerifyOTPHandler ==
  /\ pc = "route"
  /\ "VERIFY_OTP" \in claimed
  /\ \E readOk, writeOk \in BOOLEAN :
       LET authState == GetAuthState(store, room, readOk)
       IN  IF authState.status = "NEED_OTP" /\ OtpMatches(Trim(msg), authState.otp)
              /\ writeOk /\ authState.postAuthAction = "CHECK_LOAN"
           THEN \E typeLlm, formatLlm \in LlmOutcomes, api \in LoanApiOutcomes :
                  Finish("VERIFY_OTP", authState,
                         VerifyOTPHandlerResult(store, room, msg, authState, now,
                                                writeOk, typeLlm, api, formatLlm))
           ELSE Finish("VERIFY_OTP", authState,
                       VerifyOTPHandlerResult(store, room, msg, authState, now,
                                              writeOk, "text", "data", "text"))

\* message.userId
UserId == "user1"

\* The restart record that does not carry the pending intent.
LoanRestart_DropsIntent(postAuthAction, lastError) ==
  [EmptyObject EXCEPT !.status = "NEED_COOPERATIVE", !.userId = UserId,
                      !.lastError = lastError]

\* The record loanInfoAction.handler writes to restart the authentication.
LoanRestart(postAuthAction, lastError) ==
  [EmptyObject EXCEPT !.status = "NEED_COOPERATIVE", !.userId = UserId,
                      !.postAuthAction = postAuthAction, !.lastError = lastError]

\* The catch block of loanInfoAction.handler, entered after the events ev.
LoanCatch(st, r, t, ev, catchWriteOk) ==
  [st |-> SetAuthState(st, r, LoanRestart("CHECK_LOAN", "error.message"), t,
                       catchWriteOk),
   ev |-> ev \o <<Reply("loanError"), Write(catchWriteOk)>>
             \o (IF catchWriteOk THEN <<>> ELSE <<Threw>>)]

\* loanInfoAction.handler, after its getAuthState
LoanInfoHandlerResult(st, r, authState, t, typeLlm, api, formatLlm, writeOk, catchWriteOk) ==
  IF authState.status # "AUTHENTICATED"
  THEN IF writeOk
       THEN [st |-> SetAuthState(st, r, LoanRestart("CHECK_LOAN", Undef), t, TRUE),
             ev |-> <<Reply("verifyIdentityFirst"), Write(TRUE)>>]
       ELSE LoanCatch(st, r, t, <<Reply("verifyIdentityFirst"), Write(FALSE)>>,
                      catchWriteOk)
  ELSE IF typeLlm = "throw" \/ ~authState.credentials.present
       THEN LoanCatch(st, r, t, <<Call("generateText")>>, catchWriteOk)
       ELSE LET asked == <<Call("generateText"), Call("loanApi")>>
            IN  IF api = "401"
                THEN IF writeOk
                     THEN [st |-> SetAuthState(st, r,
                                    LoanRestart("CHECK_LOAN", "API returned 401"),
                                    t, TRUE),
                           ev |-> asked \o <<Reply("authErrorResponse"), Write(TRUE)>>]
                     ELSE LoanCatch(st, r, t,
                            asked \o <<Reply("authErrorResponse"), Write(FALSE)>>,
                            catchWriteOk)
                ELSE IF api = "403"
                     THEN LoanCatch(
                            SetAuthState(st, r,
                              LoanRestart("AUTHENTICATE_USER", "API returned 403"),
                              t, writeOk),
                            r, t,
                            asked \o <<Reply("authErrorResponse"), Write(writeOk)>>,
                            catchWriteOk)
                     ELSE IF api \in {"data", "empty"}
                          THEN [st |-> st,
                                ev |-> asked
                                       \o <<Reply(FormatLoanResponse(api, formatLlm))>>]
                          ELSE LoanCatch(st, r, t, asked, catchWriteOk)

\* loanInfoAction.handler
LoanInfoHandler ==
  /\ pc = "route"
  /\ "CHECK_LOAN" \in claimed
  /\ \E readOk, writeOk, catchWriteOk \in BOOLEAN :
       LET authState == GetAuthState(store, room, readOk)
       IN  IF authState.status # "AUTHENTICATED"
           THEN Finish("CHECK_LOAN", authState,
                       LoanInfoHandlerResult(store, room, authState, now,
                                             "text", "data", "text",
                                             writeOk, catchWriteOk))
           ELSE \E typeLlm, formatLlm \in LlmOutcomes, api \in LoanApiOutcomes :
                  Finish("CHECK_LOAN", authState,
                         LoanInfoHandlerResult(store, room, authState, now,
                                               typeLlm, api, formatLlm,
                                               writeOk, catchWriteOk))

(* ------------------------ AUTHENTICATE_USER ---------------------------- *)

\* What the model answers when asked for the cooperative named in a message.
CooperativeAnswers == {<<"U", "N", "K", "N", "O", "W", "N">>,
                       <<" ", "f", "u", "s", "i", "o", "n">>}

\* The record handleCooperativeSelection writes for table entry c.
WithCooperative(authState, value, name) ==
  [authState EXCEPT !.status = "NEED_CREDENTIALS", !.cooperative = value,
                    !.originalCoopName = name]

\* The table entries whose key occurs in each message as it is written.
DirectMatches_CaseSensitive ==
  [m \in Messages |->
     {n \in DOMAIN COOPERATIVE_MAP : Includes(m, COOPERATIVE_MAP[n].key)}]

\* The table entries whose key occurs in each message, lower-cased on both
\* sides (the loop of handleCooperativeSelection), tabulated once.
DirectMatches ==
  [m \in Messages |->
     {n \in DOMAIN COOPERATIVE_MAP :
        Includes(ToLowerCase(m), ToLowerCase(COOPERATIVE_MAP[n].key))}]

\* COOPERATIVE_MAP[cooperativeName.trim().toUpperCase()], tabulated once.
NamedMatches ==
  [a \in CooperativeAnswers |->
     {n \in DOMAIN COOPERATIVE_MAP :
        COOPERATIVE_MAP[n].key = ToUpperCase(Trim(a))}]

\* handleCooperativeSelection
HandleCooperativeSelection(st, r, m, authState, t, llm, answer, writeOk) ==
  LET direct == DirectMatches[m]
      named == NamedMatches[answer]
      Select(n, before) ==
        LET c == COOPERATIVE_MAP[n]
        IN  [st |-> SetAuthState(st, r, WithCooperative(authState, c.value, c.name),
                                 t, writeOk),
             ev |-> before \o <<Write(writeOk)>>
                    \o (IF writeOk THEN <<Reply("askCredentials")>> ELSE <<Threw>>)]
  IN  IF direct # {}
      THEN Select(CHOOSE n \in direct : \A k \in direct : n <= k, <<>>)
      ELSE IF llm = "throw"
           THEN [st |-> st, ev |-> <<Call("generateText"), Threw>>]
           ELSE IF llm = "text" /\ named # {}
                THEN Select(CHOOSE n \in named : TRUE, <<Call("generateText")>>)
                ELSE [st |-> st,
                      ev |-> <<Call("generateText"), Reply("cooperativeExamples")>>]

\* isValidEmail: /^[^\s@]+@[^\s@]+\.[^\s@]+$/
IsValidEmail(email) ==
  \E i, j \in DOMAIN email :
     /\ email[i] = "@" /\ email[j] = "."
     /\ 1 < i /\ i + 1 < j /\ j < Len(email)
     /\ \A k \in DOMAIN email \ {i} : email[k] \notin WhiteSpace \cup {"@"}

\* The e-mail addresses and employee numbers a message can carry.
Emails == {<<>>, <<"a", "@", "b", ".", "c", "o">>, <<"a", "b">>}

EmployeeNumbers == {Null, "", "FUS1"}

\* What the extraction of credentials can yield: the generateText call
\* throws, its text is not JSON, or it parses to an {email, employee_number}.
Extractions ==
  {[kind |-> k, email |-> <<>>, employee_number |-> Null] :
     k \in {"throw", "unparsable"}}
  \cup {[kind |-> "parsed", email |-> e, employee_number |-> n] :
          e \in Emails, n \in EmployeeNumbers}

\* What the tenant authentication API can answer: no answer (fetch throws),
\* an error status, or 2xx with both, one or none of otp and token.
AuthApiOutcomes == {"throw", "401", "404", "500", "ok", "noOtp", "noToken"}

\* The merge in which the extracted pair replaces the stored one.
MergeCredentials_NewOnly(authState, x) ==
  [present |-> TRUE, email |-> x.email, employee_number |-> x.employee_number]

\* credentials after the merge with authState.partialCredentials
MergeCredentials(authState, x) ==
  IF authState.partialCredentials.present
  THEN [present |-> TRUE,
        email |-> IF x.email # <<>> THEN x.email
                  ELSE authState.partialCredentials.email,
        employee_number |-> IF Truthy(x.employee_number) THEN x.employee_number
                            ELSE authState.partialCredentials.employee_number]
  ELSE [present |-> TRUE, email |-> x.email, employee_number |-> x.employee_number]

\* hasCompleteCredentials without the format test of the e-mail address.
HasCompleteCredentials_AnyEmail(credentials) ==
  /\ credentials.email # <<>>
  /\ Truthy(credentials.employee_number)

\* hasCompleteCredentials
HasCompleteCredentials(credentials) ==
  /\ credentials.email # <<>>
  /\ IsValidEmail(credentials.email)
  /\ Truthy(credentials.employee_number)

\* The NEED_OTP record written without the token of the API answer.
WithOtp_NoToken(authState, credentials, otp, t) ==
  [authState EXCEPT !.status = "NEED_OTP", !.credentials = credentials,
                    !.otp = otp,
                    !.responseData = [otp |-> otp, token |-> Undef],
                    !.postAuthAction = "AUTHENTICATE_USER",
                    !.otpGeneratedAt = t]

\* The record of an accepted login that is AUTHENTICATED at once, without
\* the verification of the code.
WithOtp_SkipsVerification(authState, credentials, otp, t) ==
  [authState EXCEPT !.status = "AUTHENTICATED", !.credentials = credentials,
                    !.otp = otp, !.token = "token1",
                    !.responseData = [otp |-> otp, token |-> "token1"],
                    !.postAuthAction = "AUTHENTICATE_USER",
                    !.otpGeneratedAt = t]

\* The record handleCredentialsCollection writes when the API accepts.
WithOtp(authState, credentials, otp, t) ==
  [authState EXCEPT !.status = "NEED_OTP", !.credentials = credentials,
                    !.otp = otp, !.token = "token1",
                    !.responseData = [otp |-> otp, token |-> "token1"],
                    !.postAuthAction = "AUTHENTICATE_USER",
                    !.otpGeneratedAt = t]

\* The test of the API answer that does not look for the token.
ApiAccepted_IgnoresToken(api) == api \in {"ok", "noToken"}

\* The API answer is taken as an acceptance: it is 2xx (response.ok) and
\* carries both data.otp and data.token.
ApiAccepted(api) == api = "ok"

\* handleCredentialsCollection
HandleCredentialsCollection(st, r, authState, t, x, promptLlm, api, otp, writeOk) ==
  IF x.kind = "throw"
  THEN [st |-> st, ev |-> <<Call("generateText"), Reply("credentialsNotUnderstood")>>]
  ELSE IF x.kind = "unparsable"
  THEN [st |-> st, ev |-> <<Call("generateText"), Reply("credentialsNotExtracted")>>]
  ELSE
    LET credentials == MergeCredentials(authState, x)
        partial == [authState EXCEPT !.partialCredentials = credentials]
        Ask(what) ==
          IF ~writeOk
          THEN [st |-> st,
                ev |-> <<Call("generateText"), Extracted(x), Write(FALSE), Threw>>]
          ELSE [st |-> SetAuthState(st, r, partial, t, TRUE),
                ev |-> <<Call("generateText"), Extracted(x), Write(TRUE),
                         Call("generateText")>>
                       \o (IF promptLlm = "throw" THEN <<Threw>> ELSE <<Reply(what)>>)]
        Failed(what) ==
          [st |-> st,
           ev |-> <<Call("generateText"), Extracted(x), AuthApiCall(credentials),
                    AuthApiAnswer(api), Reply(what)>>]
    IN  IF ~HasCompleteCredentials(credentials)
        THEN IF credentials.email = <<>> \/ ~IsValidEmail(credentials.email)
             THEN Ask("askEmail")
             ELSE Ask("askEmployeeNumber")
        ELSE IF api = "404" THEN Failed("employeeNotFound")
        ELSE IF api = "401" THEN Failed("credentialsInvalid")
        ELSE IF api = "500" THEN Failed("verifyDetails")
        ELSE IF ~ApiAccepted(api) THEN Failed("authenticationError")
        ELSE [st |-> SetAuthState(st, r, WithOtp(authState, credentials, otp, t),
                                  t, writeOk),
              ev |-> <<Call("generateText"), Extracted(x), AuthApiCall(credentials),
                       AuthApiAnswer(api), Write(writeOk),
                       Reply(IF writeOk THEN "otpSent" ELSE "authenticationError")>>]

\* handlePostAuthAction
HandlePostAuthAction(st, authState, t, api, formatLlm, writeOk) ==
  IF ~Truthy(authState.postAuthAction) THEN [st |-> st, ev |-> <<ReturnedFalse>>]
  ELSE IF authState.postAuthAction # "CHECK_LOAN"
  THEN [st |-> st, ev |-> <<ReturnedFalse>>]
  ELSE IF ~authState.credentials.present
  THEN [st |-> st, ev |-> <<Reply("authenticatedButLoanFailed")>>]
  ELSE IF api \notin {"data", "empty"}
  THEN [st |-> st, ev |-> <<Call("loanApi"), Reply("authenticatedButLoanFailed")>>]
  ELSE [st |-> SetAuthState(st, authState.roomId,
                            [authState EXCEPT !.postAuthAction = Null], t, writeOk),
        ev |-> <<Call("loanApi"), Reply(FormatLoanResponse(api, formatLlm)),
                 Write(writeOk)>>
               \o (IF writeOk THEN <<>>
                   ELSE <<Reply("authenticatedButLoanFailed")>>)]

\* The record handleAuthentication writes to start the flow again.
Restart(postAuthAction) ==
  [EmptyObject EXCEPT !.status = "NEED_COOPERATIVE", !.userId = UserId,
                      !.postAuthAction = postAuthAction]

\* handleAuthentication, the FAILED branch
RecoverFromFailed(st, r, authState, t, llm, writeOk) ==
  IF llm = "throw" THEN [st |-> st, ev |-> <<Call("generateText"), Threw>>]
  ELSE [st |-> SetAuthState(st, r, Restart(authState.postAuthAction), t, writeOk),
        ev |-> <<Call("generateText"), Write(writeOk)>>
               \o (IF writeOk THEN <<Reply("tryAgain")>> ELSE <<Threw>>)]

\* handleAuthentication, the default branch of the switch
StartNewFlow(st, r, t, writeOk) ==
  [st |-> SetAuthState(st, r, Restart(Undef), t, writeOk),
   ev |-> <<Write(writeOk)>>
          \o (IF writeOk THEN <<Reply("needAuthentication")>> ELSE <<Threw>>)]

\* The NEED_OTP case that sends the session back to the start of the flow.
PromptForOtp_Restarts(st, r, t) ==
  [st |-> SetAuthState(st, r, Restart(Undef), t, TRUE),
   ev |-> <<Write(TRUE), Reply("enterCode")>>]

\* handleAuthentication, the NEED_OTP case of the switch: it only asks for
\* the code.
PromptForOtp(st, r, t) == [st |-> st, ev |-> <<Reply("enterCode")>>]

\* authenticateAction.handler = handleAuthentication
AuthenticateHandler ==
  /\ pc = "route"
  /\ "AUTHENTICATE_USER" \in claimed
  /\ \E readOk, writeOk \in BOOLEAN :
       LET authState == GetAuthState(store, room, readOk)
           Done(res) == Finish("AUTHENTICATE_USER", authState, res)
       IN  IF authState.status = "NEED_OTP" /\ IsNumeric(Trim(msg))
           THEN Done([st |-> store, ev |-> <<ReturnedFalse>>])
           ELSE IF authState.status = "FAILED"
           THEN \E llm \in LlmOutcomes :
                  Done(RecoverFromFailed(store, room, authState, now, llm, writeOk))
           ELSE IF authState.status = "NEED_COOPERATIVE"
           THEN IF DirectMatches[msg] # {}
                THEN Done(HandleCooperativeSelection(
                            store, room, msg, authState, now, "text",
                            CHOOSE a \in CooperativeAnswers : TRUE, writeOk))
                ELSE \E llm \in LlmOutcomes, answer \in CooperativeAnswers :
                       Done(HandleCooperativeSelection(
                              store, room, msg, authState, now, llm, answer, writeOk))
           ELSE IF authState.status = "NEED_CREDENTIALS"
           THEN \E x \in Extractions :
                  LET Collect(promptLlm, api, otp) ==
                        Done(HandleCredentialsCollection(
                               store, room, authState, now, x, promptLlm, api, otp,
                               writeOk))
                      anOtp == CHOOSE o \in Otps : TRUE
                  IN  IF x.kind # "parsed" THEN Collect("text", "throw", anOtp)
                      ELSE IF ~HasCompleteCredentials(MergeCredentials(authState, x))
                      THEN \E promptLlm \in LlmOutcomes :
                             Collect(promptLlm, "throw", anOtp)
                      ELSE \E api \in AuthApiOutcomes :
                             IF api = "ok"
                             THEN \E otp \in Otps : Collect("text", api, otp)
                             ELSE Collect("text", api, anOtp)
           ELSE IF authState.status = "NEED_OTP"
           THEN Done(PromptForOtp(store, room, now))
           ELSE IF authState.status = "AUTHENTICATED"
           THEN IF Truthy(authState.postAuthAction)
                THEN \E api \in LoanApiOutcomes, formatLlm \in LlmOutcomes :
                       Done(HandlePostAuthAction(store, authState, now, api,
                                                 formatLlm, writeOk))
                ELSE Done([st |-> store, ev |-> <<Reply("alreadyAuthenticated")>>])
           ELSE Done(StartNewFlow(store, room, now, writeOk))

(* ---------------------------- specification ---------------------------- *)

Next ==
  \/ Tick
  \/ \E r \in ChatRooms, m \in Messages : Receive(r, m)
  \/ Unclaimed
  \/ EndTurn
  \/ VerifyOTPHandler
  \/ AuthenticateHandler
  \/ ResetHandler
  \/ LoanInfoHandler

Spec == Init /\ [][Next]_vars

(* ----------------------------- session expiry -------------------------- *)

\* timeoutThreshold of checkAndResetExpiredAuthState
TimeoutThreshold(status) ==
  IF status = "NEED_OTP" THEN OtpTimeout
  ELSE IF status = "NEED_CREDENTIALS" THEN CredentialsTimeout
  ELSE DefaultTimeout

\* The time of the last update that is the start of the process when the
\* record has none.
UpdatedAtOf_SinceBoot(authState) ==
  IF authState.updatedAt = NoTime THEN BootTime ELSE authState.updatedAt

\* new Date(authState.updatedAt || 0).getTime()
UpdatedAtOf(authState) ==
  IF authState.updatedAt = NoTime THEN 0 ELSE authState.updatedAt

\* The timeout test with >= in place of >.
HasTimedOut_AtThreshold(authState, t) ==
  t - UpdatedAtOf(authState) >= TimeoutThreshold(authState.status)

\* now - updatedAt > timeoutThreshold
HasTimedOut(authState, t) ==
  t - UpdatedAtOf(authState) > TimeoutThreshold(authState.status)

\* The reset record built by spreading the timed-out session.
TimedOutState_KeepsFields(authState) ==
  [authState EXCEPT !.status = "NEED_COOPERATIVE",
                    !.previousState = authState.status, !.timedOut = TRUE]

\* The record checkAndResetExpiredAuthState writes over a timed-out session.
TimedOutState(authState) ==
  [EmptyObject EXCEPT !.status = "NEED_COOPERATIVE", !.userId = authState.userId,
                      !.previousState = authState.status, !.timedOut = TRUE]

\* checkAndResetExpiredAuthState: the record it read, the table afterwards,
\* the boolean it returns and what its store calls wrote to the log.
CheckAndResetExpiredAuthState(st, r, t, readOk, writeOk) ==
  LET authState == GetAuthState(st, r, readOk)
  IN  IF authState.status = "AUTHENTICATED" \/ authState.status = Undef
      THEN [read |-> authState, st |-> st, expired |-> FALSE,
            log |-> GetAuthStateLog(st, r, readOk)]
      ELSE IF HasTimedOut(authState, t)
           THEN [read |-> authState,
                 st |-> SetAuthState(st, r, TimedOutState(authState), t, writeOk),
                 expired |-> writeOk,
                 log |-> GetAuthStateLog(st, r, readOk)
                         \o SetAuthStateLog(TimedOutState(authState))]
           ELSE [read |-> authState, st |-> st, expired |-> FALSE,
                 log |-> GetAuthStateLog(st, r, readOk)]

(* ------------------- the store functions, called directly -------------- *)

\* Session records a caller can hand to setAuthState for room r: for every
\* status a record with nothing else, and one that carries a cooperative,
\* credentials, partial credentials, a code, a token and a pending intent.
SampleStates(r) ==
  {WithStatus(s) : s \in AuthState}
  \cup {[EmptyObject EXCEPT
           !.status = s, !.roomId = r, !.userId = UserId,
           !.cooperative = "fusion", !.originalCoopName = "FUSION",
           !.credentials = [present |-> TRUE,
                            email |-> <<"a", "@", "b", ".", "c", "o">>,
                            employee_number |-> "FUS1"],
           !.partialCredentials = [present |-> TRUE, email |-> <<>>,
                                   employee_number |-> "FUS1"],
           !.otp = <<"0", "0", "7">>, !.token = "token1",
           !.responseData = [otp |-> <<"0", "0", "7">>, token |-> "token1"],
           !.postAuthAction = "CHECK_LOAN", !.updatedAt = 0] :
          s \in AuthState}

\* The times at which the records of an initial store were written.
PastTimes ==
  {t \in {BootTime - k * AgeStep : k \in 0 .. MaxAgeSteps} : t >= 0}

\* What a room of the store can hold when the functions are first called:
\* nothing, or a record written by setAuthState at a past time.
StoredStates(r) ==
  {<<>>} \cup {<<UpdatedStateData(r, s, t)>> : s \in SampleStates(r), t \in PastTimes}

IdleTurn ==
  /\ pc = "idle"
  /\ room = "room1"
  /\ msg = <<>>
  /\ claimed = {}
  /\ otpRead = "unread"
  /\ handled = "none"
  /\ readState = EmptyObject
  /\ events = <<>>
  /\ inflight = NoTurns

InitStore ==
  /\ store \in [Rooms -> UNION {StoredStates(r) : r \in Rooms}]
  /\ \A r \in ChatRooms : store[r] \in StoredStates(r)
  /\ \A r \in Rooms \ ChatRooms : store[r] = <<>>
  /\ now = BootTime
  /\ call = NoCall
  /\ IdleTurn

\* setAuthState(runtime, r, s)
PutState(r, s, writeOk) ==
  /\ store' = SetAuthState(store, r, s, now, writeOk)
  /\ call' = [op |-> "put", room |-> r, readOk |-> TRUE, writeOk |-> writeOk,
              arg |-> s, ret |-> EmptyObject, expired |-> FALSE,
              before |-> <<>>, at |-> now, afterPut |-> FALSE,
              log |-> SetAuthStateLog(s), input |-> <<>>, output |-> Undef]
  /\ UNCHANGED <<now, turnVars>>

\* getAuthState(runtime, r); afterPut tells whether the call before it was a
\* successful setAuthState for the same room, whose argument arg then is.
GetState(r, readOk) ==
  LET afterPut == call.op = "put" /\ call.room = r /\ call.writeOk
  IN  /\ call' = [op |-> "get", room |-> r, readOk |-> readOk, writeOk |-> TRUE,
                  arg |-> IF afterPut THEN call.arg ELSE EmptyObject,
                  ret |-> GetAuthState(store, r, readOk),
                  expired |-> FALSE, before |-> store[r], at |-> now,
                  afterPut |-> afterPut,
                  log |-> GetAuthStateLog(store, r, readOk),
                  input |-> <<>>, output |-> Undef]
      /\ UNCHANGED <<store, now, turnVars>>

\* checkAndResetExpiredAuthState(runtime, r)
ExpiryCheck(r, readOk, writeOk) ==
  LET res == CheckAndResetExpiredAuthState(store, r, now, readOk, writeOk)
  IN  /\ store' = res.st
      /\ call' = [op |-> "expiry", room |-> r, readOk |-> readOk,
                  writeOk |-> writeOk, arg |-> EmptyObject, ret |-> res.read,
                  expired |-> res.expired, before |-> store[r], at |-> now,
                  afterPut |-> FALSE, log |-> res.log,
                  input |-> <<>>, output |-> Undef]
      /\ UNCHANGED <<now, turnVars>>

NextStore ==
  \/ \E r \in Rooms, writeOk \in BOOLEAN :
       \E s \in SampleStates(r) : PutState(r, s, writeOk)
  \/ \E r \in Rooms, readOk \in BOOLEAN : GetState(r, readOk)
  \/ \E r \in Rooms, readOk, writeOk \in BOOLEAN : ExpiryCheck(r, readOk, writeOk)

SpecStore == InitStore /\ [][NextStore]_vars

(* --------------------- one turn from any stored state ------------------ *)

InitTurn ==
  /\ store \in [Rooms -> UNION {StoredStates(r) : r \in Rooms}]
  /\ \A r \in ChatRooms : store[r] \in StoredStates(r)
  /\ \A r \in Rooms \ ChatRooms : store[r] = <<>>
  /\ now = BootTime
  /\ call = NoCall
  /\ IdleTurn

NextTurn ==
  \/ \E r \in ChatRooms, m \in Messages : Receive(r, m)
  \/ Unclaimed
  \/ VerifyOTPHandler
  \/ AuthenticateHandler
  \/ ResetHandler
  \/ LoanInfoHandler

SpecTurn == InitTurn /\ [][NextTurn]_vars

(* ------------------ the cooperative resolver, called directly ---------- *)

\* Ways of writing the name n: as it is, in lower case, capitalised between
\* a space and an exclamation mark, and spelt out with hyphens.
Spellings(n) ==
  LET lower == ToLowerCase(n)
      SpeltOut == [i \in 1 .. 2 * Len(n) - 1 |->
                     IF i % 2 = 1 THEN lower[(i + 1) \div 2] ELSE "-"]
  IN  {n, lower, <<" ", n[1]>> \o SubSeq(lower, 2, Len(n)) \o <<"!">>, SpeltOut}

\* The inputs validateCooperative is called with: the spellings of every
\* key of the table, and names that are no key: misspelt, shortened,
\* lengthened, unknown, of punctuation only, and empty.
RawInputs ==
  UNION {Spellings(COOPERATIVE_MAP[n].key) : n \in DOMAIN COOPERATIVE_MAP}
  \cup {<<"f", "u", "s", "o", "i", "n">>, <<"f", "u", "s">>,
        <<"o", "c", "t", "i", "c", "s", " ", "c", "o", "o", "p">>,
        <<"x", "y", "z", "w", "q">>, <<"!", "?">>, <<>>}

\* The answers of validateCooperative to these inputs, tabulated once.
Resolved == [input \in RawInputs |-> ValidateCooperative(input)]

InitCoop ==
  /\ store = [r \in Rooms |-> <<>>]
  /\ now = BootTime
  /\ call = NoCall
  /\ IdleTurn

\* validateCooperative(input)
Validate(input) ==
  /\ call' = [NoCall EXCEPT !.op = "validateCooperative", !.input = input,
                            !.output = Resolved[input]]
  /\ UNCHANGED <<store, now, turnVars>>

NextCoop == \E input \in RawInputs : Validate(input)

SpecCoop == InitCoop /\ [][NextCoop]_vars

(* ------------------ the loan formatter, called directly ---------------- *)

InitFormat ==
  /\ store = [r \in Rooms |-> <<>>]
  /\ now = BootTime
  /\ call = NoCall
  /\ IdleTurn

\* formatLoanResponse(runtime, loanData, infoType), with the outcome llm of
\* the generateText call it makes, if it makes one
Format(loanData, infoType, llm) ==
  /\ call' = [NoCall EXCEPT !.op = "formatLoanResponse",
                            !.input = <<loanData, infoType, llm>>,
                            !.output = FormatLoanResponseRun(loanData, infoType, llm)]
  /\ UNCHANGED <<store, now, turnVars>>

NextFormat ==
  \E loanData \in LoanDataValues, infoType \in InfoTypes, llm \in LlmOutcomes :
     Format(loanData, infoType, llm)

SpecFormat == InitFormat /\ [][NextFormat]_vars

(* --------------------- handlers that run at the same time -------------- *)

\* The handlers are async functions and nothing serialises the turns of a
\* room: between the await of getAuthState and the await of setAuthState of
\* one handler, another handler can run.

\* The messages of the turns that run at the same time.
RaceMessages == {<<"0", "0", "7">>, <<"7">>, <<"r", "e", "s", "e", "t">>}

InitRace ==
  /\ store \in [Rooms -> UNION {StoredStates(r) : r \in Rooms}]
  /\ \A r \in ChatRooms :
        store[r] \in {<<>>} \cup {<<UpdatedStateData(r, s, BootTime - AgeStep)>> :
                                   s \in SampleStates(r)}
  /\ \A r \in Rooms \ ChatRooms : store[r] = <<>>
  /\ now = BootTime
  /\ call = NoCall
  /\ IdleTurn

\* A message arrives and VERIFY_OTP or RESET_AUTH, having claimed it, is
\* started in slot t.
RaceReceive(t, m) ==
  /\ inflight[t].pc = "idle"
  /\ \E okOtp \in BOOLEAN :
       \E h \in {a \in {"VERIFY_OTP"} :
                   VerifyOTPClaims[m, GetAuthState(store, room, okOtp).status]}
               \cup {a \in {"RESET_AUTH"} : ResetClaims[m]} :
         inflight' = [inflight EXCEPT
                        ![t] = [IdleSlot EXCEPT !.pc = "route", !.msg = m,
                                                !.handler = h]]
  /\ UNCHANGED <<store, now, pc, room, msg, claimed, otpRead, handled, readState,
                 events, call>>

\* verifyOTPAction.handler up to the end of its getAuthState
RaceRead(t) ==
  /\ inflight[t].pc = "route"
  /\ inflight[t].handler = "VERIFY_OTP"
  /\ \E readOk \in BOOLEAN :
       inflight' = [inflight EXCEPT
                      ![t].pc = "read",
                      ![t].read = GetAuthState(store, room, readOk)]
  /\ UNCHANGED <<store, now, pc, room, msg, claimed, otpRead, handled, readState,
                 events, call>>

\* verifyOTPAction.handler from there on: the comparison, the setAuthState
\* built from what was read, and the replies
RaceVerify(t) ==
  /\ inflight[t].pc = "read"
  /\ \E writeOk \in BOOLEAN :
       LET res == VerifyOTPHandlerResult(store, room, inflight[t].msg,
                                         inflight[t].read, now, writeOk,
                                         "text", "data", "text")
       IN  /\ store' = res.st
           /\ inflight' = [inflight EXCEPT ![t].pc = "done",
                                           ![t].overwrote = store[room],
                                           ![t].ev = res.ev]
  /\ UNCHANGED <<now, pc, room, msg, claimed, otpRead, handled, readState,
                 events, call>>

\* resetAction.handler, which writes without reading
RaceReset(t) ==
  /\ inflight[t].pc = "route"
  /\ inflight[t].handler = "RESET_AUTH"
  /\ \E writeOk \in BOOLEAN, llm \in LlmOutcomes :
       LET res == ResetHandlerResult(store, room, now, writeOk, llm)
       IN  /\ store' = res.st
           /\ inflight' = [inflight EXCEPT ![t].pc = "done",
                                           ![t].overwrote = store[room],
                                           ![t].ev = res.ev]
  /\ UNCHANGED <<now, pc, room, msg, claimed, otpRead, handled, readState,
                 events, call>>

NextRace ==
  \/ \E t \in DOMAIN inflight, m \in RaceMessages : RaceReceive(t, m)
  \/ \E t \in DOMAIN inflight : RaceRead(t)
  \/ \E t \in DOMAIN inflight : RaceVerify(t)
  \/ \E t \in DOMAIN inflight : RaceReset(t)

SpecRace == InitRace /\ [][NextRace]_vars

(* ================================ claims ================================ *)

\* The status of the record stored for room r, Undef when there is none.
StoredStatus(r) == IF store[r] = <<>> THEN Undef ELSE store[r][1].status

\* C1: for every message and every session status at most one of the four
\* validate functions returns true (as stated).
C1_AtMostOneClaims ==
  pc = "route" => Cardinality(claimed) <= 1

\* C2: whatever the session status, a message that is only digits once
\* trimmed is claimed neither by AUTHENTICATE_USER nor by CHECK_LOAN.
C2_NumericNotAuthNorLoan ==
  (pc \in {"route", "done"} /\ NumericText[msg])
    => claimed \cap {"AUTHENTICATE_USER", "CHECK_LOAN"} = {}

\* C2 witness: digits padded with spaces (which pass the first, untrimmed
\* test of CHECK_LOAN.validate) arrive in an AUTHENTICATED room.
C2_Witness ==
  /\ pc = "route"
  /\ msg = <<" ", "7", " ">>
  /\ StoredStatus(room) = "AUTHENTICATED"
  /\ claimed = {}

\* C3 as stated: VERIFY_OTP claims a message if and only if the trimmed
\* message is numeric and the stored status of the room is NEED_OTP.
C3_ClaimsIffStoredNeedOtp ==
  pc = "route"
    => (("VERIFY_OTP" \in claimed)
          <=> (NumericText[msg] /\ StoredStatus(room) = "NEED_OTP"))

\* C3 amended: VERIFY_OTP claims a message if and only if the trimmed
\* message is numeric and the status its getAuthState returns is NEED_OTP;
\* that status is the stored one, or NEED_COOPERATIVE when the read failed.
\* Hence it claims only numeric messages in rooms stored as NEED_OTP, and
\* never a non-digit message.
C3_ClaimsIffReadNeedOtp ==
  pc = "route"
    => /\ ("VERIFY_OTP" \in claimed) <=> (NumericText[msg] /\ otpRead = "NEED_OTP")
       /\ NumericText[msg] => otpRead \in {StoredStatus(room), "NEED_COOPERATIVE"}
       /\ ("VERIFY_OTP" \in claimed) => StoredStatus(room) = "NEED_OTP"
       /\ ~NumericText[msg] => "VERIFY_OTP" \notin claimed

\* C3 witness: the code "007" arrives in a room stored as NEED_OTP and is
\* claimed by VERIFY_OTP.
C3_Witness ==
  /\ pc = "route"
  /\ msg = <<"0", "0", "7">>
  /\ StoredStatus(room) = "NEED_OTP"
  /\ "VERIFY_OTP" \in claimed

\* C4 as stated: a message with a reset keyword is handled by RESET_AUTH,
\* whatever the session status; AUTHENTICATE_USER never takes it.
C4_ResetKeywordHandledByReset ==
  (pc = "done" /\ ResetClaims[msg]) => handled = "RESET_AUTH"

\* C5 as stated: whatever the session status, a non-numeric message with a
\* loan keyword is claimed by CHECK_LOAN, whose handler, when the session is
\* not AUTHENTICATED, stores NEED_COOPERATIVE with the pending intent
\* CHECK_LOAN.
C5_LoanKeywordClaimed ==
  /\ (pc = "route" /\ ~NumericText[msg] /\ IsLoanRelated[msg])
       => "CHECK_LOAN" \in claimed
  /\ (pc = "done" /\ handled = "CHECK_LOAN"
        /\ readState.status # "AUTHENTICATED" /\ events[Len(events)] = Write(TRUE))
       => /\ StoredStatus(room) = "NEED_COOPERATIVE"
          /\ store[room][1].postAuthAction = "CHECK_LOAN"

\* C6 as stated: the expiry check runs before any handler reads the
\* session, so no handler acts on a NEED_CREDENTIALS or NEED_OTP session
\* older than the threshold of its phase.
C6_NoHandlerOnStaleSession ==
  (pc = "done" /\ handled # "none"
     /\ readState.status \in {"NEED_CREDENTIALS", "NEED_OTP"})
    => now - UpdatedAtOf(readState)
         <= (IF readState.status = "NEED_OTP" THEN 15 ELSE 20)

\* The threshold the specification gives for a status, in minutes.
C7_Threshold(status) ==
  IF status = "NEED_OTP" THEN 15
  ELSE IF status = "NEED_CREDENTIALS" THEN 20 ELSE 30

\* The session the expiry check examined is past its threshold.
C7_PastThreshold ==
  /\ call.ret.status \notin {"AUTHENTICATED", Undef}
  /\ call.at - UpdatedAtOf(call.ret) > C7_Threshold(call.ret.status)

\* C7 as stated: checkAndResetExpiredAuthState reports a session expired if
\* and only if its status is neither AUTHENTICATED nor absent and its age is
\* strictly greater than the threshold of its phase.
C7_ExpiredIffPastThreshold ==
  call.op = "expiry" => (call.expired <=> C7_PastThreshold)

\* C7 amended: checkAndResetExpiredAuthState returns true if and only if
\* the session getAuthState returned is neither AUTHENTICATED nor without
\* status, its age (from time zero when it has no updatedAt) is strictly
\* greater than 15 (NEED_OTP), 20 (NEED_CREDENTIALS) or 30 minutes
\* (NEED_COOPERATIVE, FAILED), and the write of the reset record succeeds;
\* a session read as AUTHENTICATED is never reported expired nor changed.
C7_ExpiredIffPastThresholdAndWritten ==
  call.op = "expiry"
    => /\ call.expired <=> (C7_PastThreshold /\ call.writeOk)
       /\ call.ret.status = "AUTHENTICATED"
            => ~call.expired /\ store[call.room] = call.before

\* C7 witness: a NEED_CREDENTIALS session aged 25 minutes is reported
\* expired.
C7_Witness ==
  /\ call.op = "expiry"
  /\ call.ret.status = "NEED_CREDENTIALS"
  /\ call.at - call.ret.updatedAt = 25
  /\ call.expired

\* C8: when the expiry check finds a session expired, the stored record is
\* replaced by one with status NEED_COOPERATIVE, the status it had in
\* previousState, timedOut set, and no otp, token, credentials or
\* partialCredentials.
C8_ExpiredRecordReplaced ==
  (call.op = "expiry" /\ call.expired)
    => /\ store[call.room] # <<>>
       /\ LET rec == store[call.room][1]
          IN  /\ rec.status = "NEED_COOPERATIVE"
              /\ rec.previousState = call.ret.status
              /\ rec.timedOut
              /\ rec.otp = <<>> /\ rec.token = Undef
              /\ rec.responseData = NoResponseData
              /\ ~rec.credentials.present /\ ~rec.partialCredentials.present
              /\ rec.updatedAt = call.at

\* C8 witness: a NEED_OTP session holding a code, a token and credentials
\* has been found expired.
C8_Witness ==
  /\ call.op = "expiry"
  /\ call.expired
  /\ call.ret.status = "NEED_OTP"
  /\ call.ret.otp # <<>>
  /\ call.ret.credentials.present

\* C9 as stated: setAuthState(room, S) immediately followed by
\* getAuthState(room) returns a record equal to S on all fields except
\* updatedAt.
C9_RoundTrip ==
  (call.op = "get" /\ call.afterPut)
    => \A f \in Fields \ {"updatedAt"} : call.ret[f] = call.arg[f]

\* C9 amended: setAuthState(room, S) immediately followed by a
\* getAuthState(room) whose store read succeeds returns a record equal to S
\* on all fields except updatedAt, which is the time of the write, and
\* roomId, which is the room.
C9_RoundTripExceptRoomId ==
  (call.op = "get" /\ call.afterPut /\ call.readOk)
    => /\ \A f \in Fields \ {"updatedAt", "roomId"} : call.ret[f] = call.arg[f]
       /\ call.ret.roomId = call.room
       /\ call.ret.updatedAt = call.at

\* C9 witness: a record with a code, a pending intent and an old updatedAt
\* was written and read back.
C9_Witness ==
  /\ call.op = "get"
  /\ call.afterPut
  /\ call.readOk
  /\ call.arg.otp # <<>>
  /\ call.arg.postAuthAction = "CHECK_LOAN"
  /\ call.arg.updatedAt # call.ret.updatedAt

\* C10: getAuthState always returns a record: the stored one when there is
\* one, a default NEED_COOPERATIVE record when the room has none, and a
\* default NEED_COOPERATIVE record carrying the error when the read fails;
\* it writes nothing.
C10_GetNeverFails ==
  call.op = "get"
    => /\ (call.readOk /\ call.before # <<>>) => call.ret = call.before[1]
       /\ (call.readOk /\ call.before = <<>>)
            => call.ret = [EmptyObject EXCEPT !.status = "NEED_COOPERATIVE",
                                               !.roomId = call.room]
       /\ ~call.readOk
            => /\ call.ret.status = "NEED_COOPERATIVE"
               /\ call.ret.error # Undef
               /\ call.ret.otp = <<>> /\ call.ret.token = Undef
       /\ store[call.room] = call.before

\* C10 witness: the read failed for a room that has a stored record.
C10_Witness ==
  /\ call.op = "get"
  /\ ~call.readOk
  /\ call.before # <<>>
  /\ call.before[1].status = "AUTHENTICATED"
  /\ call.ret.status = "NEED_COOPERATIVE"

\* The printed object d shows a code, a token or credentials as they are.
ShowsSecret(d) ==
  \/ d.otp \notin {<<>>, Redacted}
  \/ Truthy(d.token) /\ d.token # "[REDACTED]"
  \/ d.responseData # NoResponseData
  \/ d.credentials.present
       /\ \/ Truthy(d.credentials.employee_number)
          \/ /\ d.credentials.email # <<>>
             /\ "*" \notin Range(d.credentials.email)
  \/ d.partialCredentials.present
       /\ \/ Truthy(d.partialCredentials.employee_number)
          \/ d.partialCredentials.email # <<>>

\* C11 as stated: no entry written to the diagnostic log shows the otp, the
\* token or the credentials of the session in plaintext.
C11_NoSecretInLog ==
  \A i \in DOMAIN call.log : ~ShowsSecret(call.log[i].data)

\* C12: the entered code authenticates only if, once trimmed, it is
\* character for character the stored otp: VERIFY_OTP writes AUTHENTICATED
\* only then, and a NEED_OTP session whose otp differs from the entered
\* code stays NEED_OTP and gets the mismatch reply.
C12_ExactStringMatch ==
  (pc = "done" /\ handled = "VERIFY_OTP")
    => /\ (\E i \in DOMAIN events : events[i].e = "write")
            => /\ readState.status = "NEED_OTP"
               /\ Trim(msg) = readState.otp
       /\ (readState.status = "NEED_OTP" /\ Trim(msg) # readState.otp)
            => /\ events = <<Reply("codeMismatch")>>
               /\ StoredStatus(room) = "NEED_OTP"
       /\ (readState.status = "NEED_OTP" /\ Trim(msg) = readState.otp
             /\ events[1] = Write(TRUE))
            => StoredStatus(room) = "AUTHENTICATED"

\* C12 witness: "7" was entered while the stored otp is "007" and was
\* refused.
C12_Witness ==
  /\ pc = "done"
  /\ handled = "VERIFY_OTP"
  /\ msg = <<"7">>
  /\ readState.status = "NEED_OTP"
  /\ readState.otp = <<"0", "0", "7">>
  /\ events = <<Reply("codeMismatch")>>

\* The flow that led to the session rec began with a loan request: the
\* records loanInfoAction.handler writes to restart the authentication
\* after a 401 or an error carry the pending intent CHECK_LOAN together
\* with one of these lastError values, which every later write of the flow
\* copies along.
C13_LoanIntentRecorded(rec) ==
  rec.lastError \in {"API returned 401", "error.message"}

\* The loan lookup of the turn succeeded: its reply is the formatted answer.
C13_LoanAnswered ==
  \E i \in DOMAIN events :
     events[i] \in {Reply("generated"), Reply("fallback"), Reply("noActiveLoan")}

\* C13 as stated: when the matching otp is entered in NEED_OTP (and the
\* write succeeds) the session is stored AUTHENTICATED with verifiedAt; if
\* a loan lookup was recorded as pending earlier in the flow it runs in the
\* same turn, and the pending intent is cleared once it has succeeded.
C13_OtpSuccessRunsPendingLoan ==
  (pc = "done" /\ handled = "VERIFY_OTP" /\ readState.status = "NEED_OTP"
     /\ Trim(msg) = readState.otp /\ events[1] = Write(TRUE))
    => /\ StoredStatus(room) = "AUTHENTICATED"
       /\ store[room][1].verifiedAt = now
       /\ C13_LoanIntentRecorded(readState)
            => \E i \in DOMAIN events : events[i] = Call("loanApi")
       /\ C13_LoanAnswered => ~Truthy(store[room][1].postAuthAction)

\* C14: in NEED_CREDENTIALS the tenant authentication API is called only
\* with merged credentials whose e-mail address is present and well formed
\* and whose employee number is present; a turn that stores incomplete
\* merged credentials as partialCredentials makes no API call.
C14_NoApiCallWhileIncomplete ==
  (pc = "done" /\ handled = "AUTHENTICATE_USER")
    => /\ \A i \in DOMAIN events :
            events[i].text = "authApi"
              => /\ readState.status = "NEED_CREDENTIALS"
                 /\ events[i].body.email # <<>>
                 /\ IsValidEmail(events[i].body.email)
                 /\ Truthy(events[i].body.employee_number)
       /\ (readState.status = "NEED_CREDENTIALS" /\ Len(events) >= 3
             /\ events[3] = Write(TRUE)
             /\ \/ store[room][1].partialCredentials.email = <<>>
                \/ ~IsValidEmail(store[room][1].partialCredentials.email)
                \/ ~Truthy(store[room][1].partialCredentials.employee_number))
            => \A i \in DOMAIN events : events[i].text # "authApi"

\* C14 witness: the session held an employee number as partial credentials,
\* the message brought a malformed e-mail address, and the turn asked for
\* the address.
C14_Witness ==
  /\ pc = "done"
  /\ handled = "AUTHENTICATE_USER"
  /\ readState.status = "NEED_CREDENTIALS"
  /\ readState.partialCredentials.present
  /\ readState.partialCredentials.employee_number = "FUS1"
  /\ store[room][1].partialCredentials.email = <<"a", "b">>
  /\ events[Len(events)] = Reply("askEmail")

\* C14 second witness: the missing address arrived and the API was called.
C14_WitnessCalled ==
  /\ pc = "done"
  /\ handled = "AUTHENTICATE_USER"
  /\ readState.partialCredentials.present
  /\ readState.partialCredentials.email = <<>>
  /\ \E i \in DOMAIN events : events[i].text = "authApi"

\* The turn changed the status of the session: it wrote to the store and
\* the stored status is not the one its handler read.
C15_StatusChanged ==
  /\ \E j \in DOMAIN events : events[j] = Write(TRUE)
  /\ StoredStatus(room) # readState.status

\* C15 as stated: in every turn that changes the session status, a
\* successful state write precedes the first reply of the turn.
C15_WriteBeforeReply ==
  (pc = "done" /\ handled # "none" /\ C15_StatusChanged)
    => \A i \in DOMAIN events :
          events[i].e = "reply"
            => \E j \in 1 .. i - 1 : events[j] = Write(TRUE)

\* A collaborator call of the turn failed: a store write failed, or a call
\* threw and nothing caught it.
C16_CollaboratorFailed ==
  \E i \in DOMAIN events : events[i] \in {Write(FALSE), Threw}

\* The replies that report an error to the user.
C16_ErrorReplies ==
  {Reply(t) : t \in {"errorVerifyingCode", "authenticatedButLoanFailed",
                     "loanError", "authenticationError",
                     "credentialsNotUnderstood", "credentialsNotExtracted"}}

\* C16 as stated: when a collaborator call fails during a turn the handler
\* still emits a user-facing message, and no error reply follows a write
\* that advanced the status.
C16_FailureStillReplies ==
  (pc = "done" /\ handled # "none")
    => /\ C16_CollaboratorFailed
            => \E i \in DOMAIN events : events[i].e = "reply"
       /\ \A i, j \in DOMAIN events :
            (i < j /\ events[i] = Write(TRUE) /\ events[j] \in C16_ErrorReplies)
              => StoredStatus(room) = "NEED_COOPERATIVE"

\* C17: in every stored session otp and token are both present when the
\* status is NEED_OTP or AUTHENTICATED and both absent otherwise.
C17_SecretsIffOtpOrAuthenticated ==
  \A r \in Rooms :
     store[r] # <<>>
       => LET rec == store[r][1]
          IN  IF rec.status \in {"NEED_OTP", "AUTHENTICATED"}
              THEN rec.otp # <<>> /\ Truthy(rec.token)
              ELSE rec.otp = <<>> /\ ~Truthy(rec.token)

\* C17 witness: a loan lookup has sent an AUTHENTICATED session, which held
\* otp and token, back to NEED_COOPERATIVE.
C17_Witness ==
  /\ pc = "done"
  /\ handled = "CHECK_LOAN"
  /\ readState.status = "AUTHENTICATED"
  /\ readState.otp # <<>> /\ Truthy(readState.token)
  /\ StoredStatus(room) = "NEED_COOPERATIVE"

\* The status of room r in the table st; a room without a record counts as
\* NEED_COOPERATIVE.
C18_StatusIn(st, r) ==
  IF st[r] = <<>> THEN "NEED_COOPERATIVE" ELSE st[r][1].status

\* The changes of status the state machine allows.
C18_Allowed ==
  {<<"NEED_COOPERATIVE", "NEED_CREDENTIALS">>, <<"NEED_CREDENTIALS", "NEED_OTP">>,
   <<"NEED_OTP", "AUTHENTICATED">>}
  \cup {<<s, "NEED_COOPERATIVE">> : s \in Statuses}

\* A step changes the stored status of a room only along an allowed change.
C18_Step ==
  \A r \in Rooms :
     C18_StatusIn(store, r) # C18_StatusIn(store', r)
       => <<C18_StatusIn(store, r), C18_StatusIn(store', r)>> \in C18_Allowed

\* C18 as stated: over any sequence of turns the stored status of a room
\* changes only from NEED_COOPERATIVE to NEED_CREDENTIALS, from
\* NEED_CREDENTIALS to NEED_OTP, from NEED_OTP to AUTHENTICATED, or from any
\* status back to NEED_COOPERATIVE.
C18_OnlyAllowedChanges == [][C18_Step]_vars

\* The same for the turns whose handler read the store without error.
C18_OnlyAllowedChangesWhenRead == [][readState'.error = Undef => C18_Step]_vars

C20_NormalizedKeyResolves ==
  call.op = "validateCooperative"
    => /\ \A n \in DOMAIN COOPERATIVE_MAP :
            Normalize(call.input) = COOPERATIVE_MAP[n].key
              => call.output = COOPERATIVE_MAP[n].value
       /\ Normalize(call.input)
            \in {<<"I", "M", "M", "I", "G", "R", "A", "T", "I", "O", "N">>,
                 <<"I", "M", "M", "I", "G", "R", "A", "T", "I", "O", "N", "M", "C", "S">>}
            => call.output = "immigrationmcs"

\* C20 witness: "i-m-m-i-g-r-a-t-i-o-n" was resolved to immigrationmcs.
C20_Witness ==
  /\ call.op = "validateCooperative"
  /\ Len(call.input) = 21
  /\ call.input[2] = "-"
  /\ Normalize(call.input) = <<"I", "M", "M", "I", "G", "R", "A", "T", "I", "O", "N">>
  /\ call.output = "immigrationmcs"

\* The session stored for room r is AUTHENTICATED with the pending intent
\* of a loan lookup.
C21_PendingLoan(r) ==
  /\ StoredStatus(r) = "AUTHENTICATED"
  /\ store[r][1].postAuthAction = "CHECK_LOAN"

\* The replies that ask the user for the cooperative.
C21_CooperativePrompts ==
  {Reply(t) : t \in {"verifyIdentityFirst", "needAuthentication",
                     "cooperativeExamples", "tryAgain", "sessionReset"}}

C22_EmptyShortCircuits ==
  (call.op = "formatLoanResponse"
     /\ call.input[1] \in {Json("null", 0), Json("undefined", 0),
                           Json("object", 0), Json("array", 0)})
    => /\ call.output.text = "noActiveLoan"
       /\ call.output.calls = <<>>

\* C22 witness: an empty array was formatted while generateText would have
\* thrown, and the fixed message was returned.
C22_Witness ==
  /\ call.op = "formatLoanResponse"
  /\ call.input[1] = Json("array", 0)
  /\ call.input[3] = "throw"
  /\ call.output = [text |-> "noActiveLoan", calls |-> <<>>]

\* C23: two turns of a room can interleave their read and their write of
\* the session, and each write replaces the whole record: the record stored
\* by an OTP success is the one built from what that turn read, whatever
\* another turn has stored since the read; nothing of it is kept.
C23_WriteReplacesWholeRecord ==
  [][\A t \in DOMAIN inflight :
       (inflight[t].pc = "read" /\ inflight'[t].pc = "done"
          /\ inflight'[t].ev[1] = Write(TRUE))
         => store'[room] =
              <<UpdatedStateData(room,
                                 [inflight[t].read EXCEPT
                                    !.status = "AUTHENTICATED", !.verifiedAt = now],
                                 now)>>]_vars

\* C23 witness: a VERIFY_OTP turn read NEED_OTP, a RESET_AUTH turn then
\* stored its reset record and told the user so, and the write of the
\* VERIFY_OTP turn replaced that record: the session is AUTHENTICATED again.
C23_Witness ==
  \E t, u \in DOMAIN inflight :
     /\ inflight[t].pc = "done" /\ inflight[t].handler = "VERIFY_OTP"
     /\ inflight[t].read.status = "NEED_OTP"
     /\ inflight[t].ev[1] = Write(TRUE)
     /\ inflight[t].overwrote # <<>>
     /\ inflight[t].overwrote[1].status = "NEED_COOPERATIVE"
     /\ inflight[t].overwrote[1].resetAt # NoTime
     /\ inflight[u].pc = "done" /\ inflight[u].handler = "RESET_AUTH"
     /\ inflight[u].ev[Len(inflight[u].ev)] = Reply("sessionReset")
     /\ StoredStatus(room) = "AUTHENTICATED"
     /\ store[room][1].resetAt = NoTime

\* The statuses of a session in the authentication flow.
C24_InFlowStatuses == {"NEED_COOPERATIVE", "NEED_CREDENTIALS", "NEED_OTP", "FAILED"}

\* C24 as stated: whenever the stored status is NEED_COOPERATIVE,
\* NEED_CREDENTIALS, NEED_OTP or FAILED and the message is not purely
\* numeric (does not match ^\d+$), AUTHENTICATE_USER.validate claims it.
C24_InFlowClaimed ==
  (pc = "route" /\ StoredStatus(room) \in C24_InFlowStatuses /\ ~IsNumeric(msg))
    => "AUTHENTICATE_USER" \in claimed

\* C24 amended: whenever the stored status is NEED_COOPERATIVE,
\* NEED_CREDENTIALS, NEED_OTP or FAILED and the message, once trimmed, is
\* not purely numeric, AUTHENTICATE_USER.validate claims the message,
\* whatever its content (and whether or not its store read succeeds).
C24_InFlowClaimedUnlessTrimmedNumeric ==
  (pc = "route" /\ StoredStatus(room) \in C24_InFlowStatuses /\ ~NumericText[msg])
    => "AUTHENTICATE_USER" \in claimed

\* C24 witness: "reset loan", which has a reset and a loan keyword and no
\* auth keyword, arrives in a FAILED room and is claimed.
C24_Witness ==
  /\ pc = "route"
  /\ StoredStatus(room) = "FAILED"
  /\ msg = <<"r", "e", "s", "e", "t", " ", "l", "o", "a", "n">>
  /\ "AUTHENTICATE_USER" \in claimed

\* The message contains an auth keyword, as AUTHENTICATE_USER.validate
\* looks for it.
C25_HasAuthKeyword == [m \in Messages |-> SomeKeyword(authKeywords, Trim(m))]

\* C25 as stated: when the session is AUTHENTICATED and the message
\* contains both an auth keyword and a loan keyword, AUTHENTICATE_USER
\* refuses it and CHECK_LOAN claims it; with an auth keyword and no loan
\* keyword AUTHENTICATE_USER claims it.
C25_AmbiguousDefersToLoan ==
  (pc = "route" /\ StoredStatus(room) = "AUTHENTICATED")
    => /\ (C25_HasAuthKeyword[msg] /\ IsLoanRelated[msg])
            => /\ "AUTHENTICATE_USER" \notin claimed
               /\ "CHECK_LOAN" \in claimed
       /\ (C25_HasAuthKeyword[msg] /\ ~IsLoanRelated[msg])
            => "AUTHENTICATE_USER" \in claimed

\* C26: a numeric code that does not match, entered in NEED_OTP, leaves the
\* stored session as it is (NEED_OTP with the same otp and token) and gets
\* the mismatch reply; no attempt is counted, so the matching code entered
\* afterwards still stores AUTHENTICATED.
C26_MismatchLeavesSession ==
  [][\A t \in DOMAIN inflight :
       (inflight[t].pc = "read" /\ inflight'[t].pc = "done"
          /\ inflight[t].read.status = "NEED_OTP")
         => /\ Trim(inflight[t].msg) # inflight[t].read.otp
                => /\ store' = store
                   /\ inflight'[t].ev = <<Reply("codeMismatch")>>
            /\ (Trim(inflight[t].msg) = inflight[t].read.otp
                  /\ inflight'[t].ev[1] = Write(TRUE))
                => /\ store'[room] # <<>>
                   /\ store'[room][1].status = "AUTHENTICATED"]_vars

\* C26 witness: "7" was refused in a NEED_OTP session with otp "007" and a
\* token, which it left as it was, and "007", entered in another turn,
\* then replaced that very record by an AUTHENTICATED one.
C26_Witness ==
  \E t, u \in DOMAIN inflight :
     /\ inflight[t].pc = "done" /\ inflight[t].msg = <<"7">>
     /\ inflight[t].read.status = "NEED_OTP"
     /\ inflight[t].read.otp = <<"0", "0", "7">>
     /\ Truthy(inflight[t].read.token)
     /\ inflight[t].ev = <<Reply("codeMismatch")>>
     /\ inflight[t].overwrote = <<inflight[t].read>>
     /\ inflight[u].pc = "done" /\ inflight[u].msg = <<"0", "0", "7">>
     /\ inflight[u].ev[1] = Write(TRUE)
     /\ inflight[u].overwrote = <<inflight[t].read>>
     /\ StoredStatus(room) = "AUTHENTICATED"

\* The tenant API accepted the credentials of the turn and the record built
\* from its answer was stored.
C27_Accepted ==
  /\ pc = "done" /\ handled = "AUTHENTICATE_USER"
  /\ readState.status = "NEED_CREDENTIALS"
  /\ Len(events) >= 5
  /\ events[3].text = "authApi"
  /\ events[4] = AuthApiAnswer("ok")
  /\ events[5] = Write(TRUE)

\* C27 as stated: when the tenant API accepts the credentials, the stored
\* session moves to NEED_OTP holding the returned otp and token, and the
\* record no longer contains partialCredentials.
C27_AcceptedClearsPartial ==
  C27_Accepted
    => /\ StoredStatus(room) = "NEED_OTP"
       /\ store[room][1].otp \in Otps
       /\ store[room][1].otp = store[room][1].responseData.otp
       /\ Truthy(store[room][1].token)
       /\ store[room][1].credentials = events[3].body
       /\ ~store[room][1].partialCredentials.present

\* The same without the last part: the record is NEED_OTP with otp, token
\* and the credentials sent to the API.
C27_AcceptedMovesToOtp ==
  C27_Accepted
    => /\ StoredStatus(room) = "NEED_OTP"
       /\ store[room][1].otp \in Otps
       /\ store[room][1].otp = store[room][1].responseData.otp
       /\ Truthy(store[room][1].token)
       /\ store[room][1].credentials = events[3].body

\* The answers by which the tenant API does not accept: an error status,
\* or 2xx without otp or without token.
C28_Refusals == {"401", "404", "500", "noOtp", "noToken"}

\* The replies by which handleCredentialsCollection apologises.
C28_Apologies ==
  {Reply(t) : t \in {"employeeNotFound", "credentialsInvalid", "verifyDetails",
                     "authenticationError"}}

\* C28: when the tenant API answers 401, 404 or another non-2xx status, or
\* 2xx with otp or token missing, the turn leaves the stored session as it
\* was, in NEED_CREDENTIALS, and emits exactly one reply, an apology.
C28_RefusalKeepsSession ==
  [][(pc = "route" /\ pc' = "done"
        /\ \E i \in DOMAIN events' :
              events'[i].e = "answer" /\ events'[i].text \in C28_Refusals)
       => /\ store' = store
          /\ StoredStatus(room) = "NEED_CREDENTIALS"
          /\ Cardinality({i \in DOMAIN events' : events'[i].e = "reply"}) = 1
          /\ events'[Len(events')] \in C28_Apologies]_vars

\* C28 witness: the API answered 2xx without a token, the turn apologised
\* and the session is still NEED_CREDENTIALS.
C28_Witness ==
  /\ pc = "done"
  /\ handled = "AUTHENTICATE_USER"
  /\ \E i \in DOMAIN events : events[i] = AuthApiAnswer("noToken")
  /\ events[Len(events)] = Reply("authenticationError")
  /\ StoredStatus(room) = "NEED_CREDENTIALS"
  /\ store[room] = <<readState>>

\* An AUTHENTICATE_USER turn in NEED_CREDENTIALS has parsed the extraction
\* and gone on with the credentials: it stored them or called the API.
C29_Collected ==
  /\ pc = "done" /\ handled = "AUTHENTICATE_USER"
  /\ readState.status = "NEED_CREDENTIALS"
  /\ Len(events) >= 3
  /\ events[2].e = "extracted"
  /\ events[3] = Write(TRUE) \/ events[3].text = "authApi"

\* The credentials the turn used: those it sent to the API, or those it
\* stored as partialCredentials.
C29_Used ==
  IF events[3].text = "authApi" THEN events[3].body
  ELSE store[room][1].partialCredentials

\* The pair is complete: a well-formed e-mail address and an employee number.
C29_Complete(c) ==
  c.email # <<>> /\ IsValidEmail(c.email) /\ c.employee_number \notin {Null, Undef, ""}

\* What becomes of the used credentials c: when incomplete they are stored
\* as partialCredentials of the otherwise unchanged session and no API call
\* is made, when complete they are sent to the API.
C29_StoredOrSent(c) ==
  IF C29_Complete(c)
  THEN events[3] = AuthApiCall(c)
  ELSE /\ events[3] = Write(TRUE)
       /\ store[room] =
            <<UpdatedStateData(room, [readState EXCEPT !.partialCredentials = c], now)>>

\* C29 as stated: in NEED_CREDENTIALS the credentials used in a turn are,
\* per field, the newly extracted value when it is non-null and the stored
\* partial value otherwise; when incomplete they are stored back as
\* partialCredentials.
C29_MergeNonNull ==
  C29_Collected
    => LET x == events[2].body
           stored == readState.partialCredentials
           merged == [present |-> TRUE,
                      email |-> IF x.email # <<>> THEN x.email ELSE stored.email,
                      employee_number |->
                        IF x.employee_number # Null THEN x.employee_number
                        ELSE stored.employee_number]
       IN  C29_Used = merged /\ C29_StoredOrSent(merged)

\* C29 amended: in NEED_CREDENTIALS, when the session holds partial
\* credentials, the credentials used in a turn are, per field, the newly
\* extracted value when it is neither null nor empty and the stored partial
\* value otherwise; when it holds none they are the extracted pair.  When
\* the result is incomplete it is stored back as partialCredentials (if the
\* write succeeds), so that an e-mail address and an employee number
\* supplied in separate turns accumulate into a complete pair.
C29_MergeNonEmpty ==
  C29_Collected
    => LET x == events[2].body
           stored == readState.partialCredentials
           merged == IF stored.present
                     THEN [present |-> TRUE,
                           email |-> IF x.email # <<>> THEN x.email ELSE stored.email,
                           employee_number |->
                             IF x.employee_number \notin {Null, ""}
                             THEN x.employee_number
                             ELSE stored.employee_number]
                     ELSE x
       IN  C29_Used = merged /\ C29_StoredOrSent(merged)

\* C29 witness: the session held the e-mail address alone, the message
\* brought the employee number alone, and the API was called with both.
C29_Witness ==
  /\ C29_Collected
  /\ readState.partialCredentials.present
  /\ readState.partialCredentials.email = <<"a", "@", "b", ".", "c", "o">>
  /\ readState.partialCredentials.employee_number = Null
  /\ events[2].body.email = <<>>
  /\ events[2].body.employee_number = "FUS1"
  /\ events[3] = AuthApiCall([present |-> TRUE,
                              email |-> <<"a", "@", "b", ".", "c", "o">>,
                              employee_number |-> "FUS1"])

\* The positions in the table of the keys that the message contains,
\* whatever the case of its letters.
C30_KeysIn ==
  [m \in Messages |->
     {n \in DOMAIN COOPERATIVE_MAP : Includes(ToUpperCase(m), COOPERATIVE_MAP[n].key)}]

\* C30: in NEED_COOPERATIVE, a message that contains a key of the table,
\* whatever its case, takes handleCooperativeSelection straight to its
\* write, without any text generation; once written, the session is
\* NEED_CREDENTIALS with the cooperative mapped to that key, the first of
\* them in table order when the message contains several, and the reply
\* asks for the credentials.
C30_KeyInMessageSelects ==
  (pc = "done" /\ handled = "AUTHENTICATE_USER"
     /\ readState.status = "NEED_COOPERATIVE" /\ C30_KeysIn[msg] # {})
    => LET first == CHOOSE n \in C30_KeysIn[msg] : \A k \in C30_KeysIn[msg] : n <= k
       IN  /\ events[1].e = "write"
           /\ events[1] = Write(TRUE)
                => /\ StoredStatus(room) = "NEED_CREDENTIALS"
                   /\ store[room][1].cooperative = COOPERATIVE_MAP[first].value
                   /\ store[room][1].originalCoopName = COOPERATIVE_MAP[first].name
                   /\ events = <<Write(TRUE), Reply("askCredentials")>>

\* C30 witness: "tfc fusion", in which TFC comes first but FUSION is first
\* in the table, selected fusion.
C30_Witness ==
  /\ pc = "done"
  /\ handled = "AUTHENTICATE_USER"
  /\ readState.status = "NEED_COOPERATIVE"
  /\ msg = <<"t", "f", "c", " ", "f", "u", "s", "i", "o", "n">>
  /\ StoredStatus(room) = "NEED_CREDENTIALS"
  /\ store[room][1].cooperative = "fusion"
  /\ store[room][1].originalCoopName = "FUSION"

\* C30 second witness: "at FUSION" in a room without a record selected
\* fusion.
C30_WitnessFreshRoom ==
  /\ pc = "done"
  /\ handled = "AUTHENTICATE_USER"
  /\ readState = [EmptyObject EXCEPT !.status = "NEED_COOPERATIVE", !.roomId = room]
  /\ msg = <<"a", "t", " ", "F", "U", "S", "I", "O", "N">>
  /\ StoredStatus(room) = "NEED_CREDENTIALS"
  /\ store[room][1].cooperative = "fusion"

\* The loan lookup of a CHECK_LOAN turn for an AUTHENTICATED session failed:
\* the handler answered with the text for a 401 or 403, or with the text of
\* its catch block.
C31_LookupFailed ==
  /\ pc = "done"
  /\ handled = "CHECK_LOAN"
  /\ readState.status = "AUTHENTICATED"
  /\ \E i \in DOMAIN events :
        events[i] \in {Reply("authErrorResponse"), Reply("loanError")}

\* The last setAuthState of the turn, if it made one, succeeded.
C31_LastWriteStored ==
  \E i \in DOMAIN events :
     /\ events[i] = Write(TRUE)
     /\ \A j \in DOMAIN events : j > i => events[j].e # "write"

\* C31: when the loan API answers 401 or 403, or the lookup fails in another
\* way, for an AUTHENTICATED session, the record that the handler's last
\* setAuthState stored is NEED_COOPERATIVE with the pending intent
\* CHECK_LOAN and without token, cooperative or credentials.
C31_FailedLookupRestarts ==
  (C31_LookupFailed /\ C31_LastWriteStored)
    => /\ StoredStatus(room) = "NEED_COOPERATIVE"
       /\ store[room][1].postAuthAction = "CHECK_LOAN"
       /\ store[room][1].token = Undef
       /\ store[room][1].cooperative = Undef
       /\ store[room][1].credentials = NoCredentials
       /\ store[room][1].updatedAt = now

\* C31 witness: the API answered 403 to a session that had a token, a
\* cooperative and credentials; the handler wrote twice, and the record has
\* the intent CHECK_LOAN and none of the three.
C31_Witness ==
  /\ C31_LookupFailed
  /\ readState.token = "token1"
  /\ readState.cooperative = "fusion"
  /\ readState.credentials.present
  /\ events = <<Call("generateText"), Call("loanApi"), Reply("authErrorResponse"),
                Write(TRUE), Reply("loanError"), Write(TRUE)>>
  /\ StoredStatus(room) = "NEED_COOPERATIVE"
  /\ store[room][1].postAuthAction = "CHECK_LOAN"
  /\ store[room][1].token = Undef

\* C31 second witness: the API answered 401.
C31_Witness401 ==
  /\ C31_LookupFailed
  /\ readState.token = "token1"
  /\ events = <<Call("generateText"), Call("loanApi"), Reply("authErrorResponse"),
                Write(TRUE)>>
  /\ store[room][1].postAuthAction = "CHECK_LOAN"

\* Slot t runs resetAction.handler in this step.
C32_ResetRuns(t) ==
  /\ inflight[t].pc = "route"
  /\ inflight[t].handler = "RESET_AUTH"
  /\ inflight'[t].pc = "done"

\* The record a reset leaves at time t: NEED_COOPERATIVE, the time of the
\* reset, the room and the time of the write, and nothing else.
C32_FreshRecord(r, t) ==
  [status |-> "NEED_COOPERATIVE", roomId |-> r, userId |-> Undef,
   cooperative |-> Undef, originalCoopName |-> Undef,
   credentials |-> NoCredentials, partialCredentials |-> NoCredentials,
   otp |-> <<>>, token |-> Undef, responseData |-> NoResponseData,
   postAuthAction |-> Undef, otpGeneratedAt |-> NoTime, verifiedAt |-> NoTime,
   resetAt |-> t, previousState |-> Undef, timedOut |-> FALSE,
   lastError |-> Undef, error |-> Undef, updatedAt |-> t]

\* C32: whatever the room's record is, RESET_AUTH replaces it by a fresh
\* NEED_COOPERATIVE record without cooperative, credentials,
\* partialCredentials, otp, token or postAuthAction, if the store accepts the
\* write, and leaves the store as it is otherwise; the room has a record
\* afterwards if it had one before, and the other rooms keep theirs.
C32_ResetOverwrites ==
  [][\A t \in DOMAIN inflight :
       C32_ResetRuns(t)
         => /\ inflight'[t].ev[1] = Write(TRUE)
                 => store'[room] = <<C32_FreshRecord(room, now)>>
            /\ inflight'[t].ev[1] # Write(TRUE) => store' = store
            /\ store[room] # <<>> => store'[room] # <<>>
            /\ \A r \in Rooms \ {room} : store'[r] = store[r]]_vars

\* C32 witness: a reset has replaced an AUTHENTICATED session that had a
\* cooperative, credentials, a code, a token and a pending intent.
C32_Witness ==
  \E t \in DOMAIN inflight :
     /\ inflight[t].pc = "done"
     /\ inflight[t].handler = "RESET_AUTH"
     /\ inflight[t].ev[1] = Write(TRUE)
     /\ inflight[t].overwrote # <<>>
     /\ inflight[t].overwrote[1].status = "AUTHENTICATED"
     /\ inflight[t].overwrote[1].token = "token1"
     /\ inflight[t].overwrote[1].postAuthAction = "CHECK_LOAN"
     /\ store[room] = <<C32_FreshRecord(room, now)>>

\* C33: when AUTHENTICATE_USER handles a message that is not numeric and
\* reads a NEED_OTP session, it asks for the 6-digit code and nothing else,
\* and the store is left as it was.
C33_NonNumericInOtpPrompts ==
  [][(pc = "route" /\ handled' = "AUTHENTICATE_USER"
        /\ readState'.status = "NEED_OTP" /\ ~IsNumeric(msg))
       => /\ events' = <<Reply("enterCode")>>
          /\ store' = store]_vars

\* C33 witness: "hello" was answered by the request for the code in a
\* NEED_OTP session, which still has its code and its token.
C33_Witness ==
  /\ pc = "done"
  /\ handled = "AUTHENTICATE_USER"
  /\ readState.status = "NEED_OTP"
  /\ msg = <<"h", "e", "l", "l", "o">>
  /\ events = <<Reply("enterCode")>>
  /\ StoredStatus(room) = "NEED_OTP"
  /\ store[room][1].otp = <<"0", "0", "7">>
  /\ store[room][1].token = "token1"

\* C34: a setAuthState call that the store accepts leaves as the room's
\* record the properties of the state data it was given, with the room as
\* roomId and the time of the call as updatedAt, whatever the state data
\* had there; nothing of the record stored before is in it, and the other
\* rooms keep their records.  A call that the store rejects changes nothing.
C34_PersistsExactlyWhatIsGiven ==
  [][(call'.op = "put" /\ call' # call)
       => IF call'.writeOk
          THEN /\ store'[call'.room] =
                    <<[f \in Fields |->
                         IF f = "roomId" THEN call'.room
                         ELSE IF f = "updatedAt" THEN now
                         ELSE call'.arg[f]]>>
               /\ \A r \in Rooms \ {call'.room} : store'[r] = store[r]
          ELSE store' = store]_vars

\* C34 witness: a record with nothing but a status, without roomId and
\* updatedAt, was written for a room: what is stored is that record with
\* the room and the time of the write, without any token, code, cooperative
\* or credentials.
C34_Witness ==
  /\ call.op = "put"
  /\ call.writeOk
  /\ call.arg = WithStatus("NEED_CREDENTIALS")
  /\ call.arg.roomId = Undef
  /\ call.arg.updatedAt = NoTime
  /\ store[call.room] # <<>>
  /\ store[call.room][1].status = "NEED_CREDENTIALS"
  /\ store[call.room][1].roomId = call.room
  /\ store[call.room][1].updatedAt = now
  /\ store[call.room][1].token = Undef
  /\ store[call.room][1].otp = <<>>
  /\ store[call.room][1].credentials = NoCredentials

\* formatLoanResponse was called with loan data that are not empty: a
\* number other than 0, true, or a string, an array or an object that is not
\* empty.
C35_NonEmptyData ==
  /\ call.op = "formatLoanResponse"
  /\ call.input[1].type \in {"object", "array", "number", "string", "boolean"}
  /\ call.input[1].size > 0

\* C35: for loan data that are not empty, formatLoanResponse returns the
\* text of createFallbackLoanResponse whenever its generateText call throws
\* or returns the empty string.
C35_FallbackOnUnusableOutput ==
  (C35_NonEmptyData /\ call.input[3] \in {"throw", "empty"})
    => /\ call.output.text = "fallback"
       /\ call.output.calls[Len(call.output.calls)] = "createFallbackLoanResponse"

\* C35, the half that holds: when the generateText call throws, the text
\* returned is that of createFallbackLoanResponse.
C35_FallbackOnThrow ==
  (C35_NonEmptyData /\ call.input[3] = "throw")
    => /\ call.output.text = "fallback"
       /\ call.output.calls[Len(call.output.calls)] = "createFallbackLoanResponse"

\* C35, what happens instead: the empty string that generateText returned
\* is what formatLoanResponse returns.
C35_EmptyOutputReturned ==
  /\ C35_NonEmptyData
  /\ call.input[3] = "empty"
  /\ call.output.text = ""
  /\ call.output.calls = <<"sanitizeLoanData", "generateText">>

\* The replies of the turn's handler, in order.
C36_Replies == SelectSeq(events, LAMBDA ev : ev.e = "reply")

\* The turn is an OTP success with a pending loan lookup.
C36_OtpSuccessWithPendingLoan ==
  /\ handled = "VERIFY_OTP"
  /\ readState.status = "NEED_OTP"
  /\ readState.postAuthAction = "CHECK_LOAN"
  /\ Trim(msg) = readState.otp
  /\ events[1] = Write(TRUE)

\* C36: every handler invocation emits at most one reply, except the OTP
\* success with a pending loan lookup, which emits the intermediate message
\* and then one final message.
C36_AtMostOneReply ==
  pc = "done"
    => IF C36_OtpSuccessWithPendingLoan
       THEN /\ Len(C36_Replies) = 2
            /\ C36_Replies[1] = Reply("authenticatedCheckingLoan")
       ELSE Len(C36_Replies) <= 1

\* C36, the part that holds: the same, for the turns in which the store
\* accepts every write and the loan API does not answer 403 to CHECK_LOAN.
C36_AtMostOneReplyUnless403 ==
  (pc = "done"
     /\ (\A i \in DOMAIN events : events[i] # Write(FALSE))
     /\ ~(handled = "CHECK_LOAN"
            /\ \E k \in DOMAIN events :
                  /\ events[k] = Reply("authErrorResponse")
                  /\ k + 1 < Len(events)
                  /\ events[k + 1] = Write(TRUE)))
    => IF C36_OtpSuccessWithPendingLoan
       THEN /\ Len(C36_Replies) = 2
            /\ C36_Replies[1] = Reply("authenticatedCheckingLoan")
       ELSE Len(C36_Replies) <= 1

\* C36, what happens instead: the loan API answered 403 to a CHECK_LOAN
\* turn for an AUTHENTICATED session, every write was stored, and the
\* handler replied twice.
C36_TwoRepliesOn403 ==
  /\ pc = "done"
  /\ handled = "CHECK_LOAN"
  /\ readState.status = "AUTHENTICATED"
  /\ C36_Replies = <<Reply("authErrorResponse"), Reply("loanError")>>
  /\ \A i \in DOMAIN events : events[i] # Write(FALSE)

\* C37: with one turn after the other, a step after which a room is stored
\* as AUTHENTICATED and before which it was not is the step of a VERIFY_OTP
\* handler that read NEED_OTP and was given, once trimmed, the code stored
\* for the room.
C37_AuthenticatedOnlyByOtp ==
  [][\A r \in Rooms :
       (StoredStatus(r)' = "AUTHENTICATED" /\ StoredStatus(r) # "AUTHENTICATED")
         => /\ r = room
            /\ pc = "route"
            /\ handled' = "VERIFY_OTP"
            /\ readState'.status = "NEED_OTP"
            /\ store[r] # <<>>
            /\ store[r][1].status = "NEED_OTP"
            /\ Trim(msg) = store[r][1].otp
            /\ Trim(msg) = readState'.otp]_vars

\* C37, for the expiry check called directly: it never leaves a room
\* AUTHENTICATED that was not.
C37_ExpiryNeverAuthenticates ==
  [][\A r \in Rooms :
       (call'.op = "expiry" /\ StoredStatus(r)' = "AUTHENTICATED")
         => StoredStatus(r) = "AUTHENTICATED"]_vars

\* C37 witness: the code given in a NEED_OTP session was the stored one and
\* the room is now stored as AUTHENTICATED, verified at the time of the turn.
C37_Witness ==
  /\ pc = "done"
  /\ handled = "VERIFY_OTP"
  /\ readState.status = "NEED_OTP"
  /\ IsNumeric(readState.otp)
  /\ Trim(msg) = readState.otp
  /\ events[1] = Write(TRUE)
  /\ StoredStatus(room) = "AUTHENTICATED"
  /\ store[room][1].verifiedAt = now
  /\ store[room][1].updatedAt = now

\* The record stored for room r has the pending intent CHECK_LOAN.
C38_HasLoanIntent(st, r) ==
  st[r] # <<>> /\ st[r][1].postAuthAction = "CHECK_LOAN"

C38_WitnessFreshRoom ==
  /\ pc = "route"
  /\ msg = <<"m", "y", " ", "l", "o", "a", "n">>
  /\ IsLoanRelated[msg]
  /\ store[room] = <<>>
  /\ "CHECK_LOAN" \notin claimed
  /\ "AUTHENTICATE_USER" \in claimed

C39_CheckedDefault ==
  /\ call.op = "expiry"
  /\ (call.before = <<>> \/ ~call.readOk)

\* C39: for a room without a record (or when the record read has no
\* updatedAt), checkAndResetExpiredAuthState examines the default
\* NEED_COOPERATIVE session with updatedAt taken as time zero, finds it
\* past the 30 minutes, and, the store accepting the write, returns true
\* and leaves a timed-out NEED_COOPERATIVE record for the room.
C39_DefaultSessionExpires ==
  C39_CheckedDefault
    => /\ call.ret.status = "NEED_COOPERATIVE"
       /\ call.ret.updatedAt = NoTime
       /\ call.at - 0 > DefaultTimeout
       /\ call.expired = call.writeOk
       /\ call.writeOk
            => /\ store[call.room] # <<>>
               /\ store[call.room][1].status = "NEED_COOPERATIVE"
               /\ store[call.room][1].previousState = "NEED_COOPERATIVE"
               /\ store[call.room][1].timedOut
               /\ store[call.room][1].updatedAt = call.at
               /\ store[call.room][1].roomId = call.room
       /\ ~call.writeOk => store[call.room] = call.before

\* C39 witness: the check was called for a room without a record, said it
\* had expired and left a timed-out record for it.
C39_Witness ==
  /\ call.op = "expiry"
  /\ call.before = <<>>
  /\ call.readOk
  /\ call.expired
  /\ store[call.room] # <<>>
  /\ store[call.room][1].status = "NEED_COOPERATIVE"
  /\ store[call.room][1].timedOut
  /\ store[call.room][1].previousState = "NEED_COOPERATIVE"

\* C40: a purely numeric message (surrounding blanks apart) that arrives
\* while the room is not stored as NEED_OTP is claimed by none of
\* VERIFY_OTP, AUTHENTICATE_USER, RESET_AUTH and CHECK_LOAN; no handler
\* runs for it and the store is left as it was.
C40_NumericOutsideOtpIgnored ==
  [][(pc = "route" /\ IsNumeric(Trim(msg)) /\ StoredStatus(room) # "NEED_OTP")
       => /\ claimed = {}
          /\ store' = store
          /\ handled' = "none"
          /\ events' = <<>>]_vars

\* C40 witness: "007" arrived in a NEED_CREDENTIALS room; the turn is over,
\* nothing claimed it, no handler ran, and the room is still
\* NEED_CREDENTIALS.
C40_Witness ==
  /\ pc = "done"
  /\ msg = <<"0", "0", "7">>
  /\ claimed = {}
  /\ handled = "none"
  /\ events = <<>>
  /\ StoredStatus(room) = "NEED_CREDENTIALS"

====
